---- MODULE Spec2Model ----
(***************************************************************************)
(* A model of browser.py: the per-tab task runner, script contexts and     *)
(* their discarding on navigation, the UI thread's call stack (tasks are   *)
(* run from Browser.draw, which bridge mutations call), the cookie jar,    *)
(* the HTTP request builder and the tab's history and referrer.            *)
(*                                                                         *)
(* Specifications:                                                         *)
(*   Spec        UI thread + helper threads of one (current) tab           *)
(*   SpecRunner  TaskRunner alone, at the granularity of its lock          *)
(*   SpecCookie  COOKIE_JAR under URL.request and document.cookie          *)
(*   SpecNav     Tab history, referrer and the requests its loads make     *)
(***************************************************************************)
EXTENDS Integers, Sequences, FiniteSets, TLC

VARIABLES
  \* ---- Spec: Tab / JSContext / TaskRunner on the UI thread ----
  tasks,          \* TaskRunner.tasks of the tab: FIFO of Task records
  stack,          \* UI thread call stack: frames of load / task / RAF handlers
  js,             \* Tab.js: id of the tab's current JSContext (0 = None)
  nctx,           \* number of JSContexts created so far
  discarded,      \* set of JSContext ids whose .discarded is True
  needs_render,   \* Tab.needs_render
  RAF_LISTENERS,  \* per JSContext: the RAF_LISTENERS array of its interpreter
  timers,         \* threading.Timer threads started by setTimeout, not yet fired
  xhrs,           \* threads started by an async XMLHttpRequest_send, still running
  nid,            \* number of Task / callback ids handed out
  dom_writer,     \* JSContext whose bridge call last mutated Tab.nodes (0 = none since load)
  \* ---- SpecRunner: TaskRunner under its threading.Condition ----
  lock,           \* holder of TaskRunner.condition (0 = free, UIThread, or a helper)
  hpc,            \* per helper thread: where it is in schedule_task
  ui,             \* UI thread: stack of TaskRunner.run calls in progress
  appended,       \* ids in the order schedule_task appended them
  executed,       \* ids in the order Task.run was called
  \* ---- SpecCookie: the process-wide cookie jar ----
  COOKIE_JAR,     \* origin -> ordered dict name -> (value, params)
  now,            \* time.time(), in whole seconds
  obs,            \* the last jar operation: its inputs, the jar before it, its result
  marked,         \* <<origin, name>> of the cookies a response sent with HttpOnly
  past,           \* <<origin, name>> of the cookies the last response set already expired
  \* ---- SpecJar: threads inside URL.request ----
  jthreads,       \* per thread: where its URL.request is in its work on the jar
  \* ---- SpecNav: Tab navigation ----
  history,        \* Tab.history: entries {url, method, body}
  history_index,  \* Tab.history_index (Python index: -1 = empty, 0 = first entry)
  url,            \* Tab.url: URL of the document shown (NoURL = None)
  referrer_policy, \* Tab.referrer_policy ("" = None)
  navobs,         \* the last navigate, go_back, go_forward or reload and its load
  \* ---- SpecCsp: Content-Security-Policy and CORS ----
  allowed_origins, \* Tab.allowed_origins (NoPolicy = None)
  scan,           \* Tab.nodes' scripts and links, loaded_scripts, loaded_styles
  issued,         \* the subresource and XHR requests the last step sent
  xthreads,       \* run_load threads of asynchronous XMLHttpRequest_send calls
  onloads,        \* dispatch_xhr_onload tasks in the task queue
  xobs,           \* the last XMLHttpRequest_send, run_load or onload step and its outcome
  cert_error,     \* Tab.cert_error
  \* ---- SpecEvent: Node.dispatchEvent ----
  LISTENERS,      \* LISTENERS[handle]: the listeners of the event type, in the order added
  evt,            \* the Event being dispatched: do_default, do_bubble
  frames,         \* the calls of dispatchEvent in progress, innermost last
  ran,            \* <<handle, i>> of the listeners called by the dispatch, in order
  dispatched,     \* the dispatch begun last: its target, whether it returned, and what
  \* ---- SpecParse: HTMLParser.parse ----
  parser,         \* the HTMLParser: body read so far, text, in_tag, nodes, unfinished
  parsed,         \* the node parse returned (0 = it has not returned)
  \* ---- SpecDom: the DOM behind the script bridge ----
  dom,            \* the node table: every Text and Element created
  tab_nodes,      \* Tab.nodes: the root of the document (0 = None)
  handle_to_node, \* JSContext.handle_to_node: entry h + 1 is the node of handle h
  document,       \* Tab.document: the DOM the layout tree was built from
  display_list,   \* Tab.display_list
  bridge,         \* the last call made through the bridge and its result
  dom_ops,        \* calls that changed the DOM so far (counted in SpecDom)
  \* ---- SpecInput: clicks and key presses on the widgets of a document ----
  widgets,        \* the elements of the document shown: tag, attributes, parent
  old_widgets,    \* the elements of the document Tab.focus still points into
  focus,          \* Tab.focus: 0 = None, n = element n, -n = element n of old_widgets
  handlers,       \* the script context: the handles it holds and LISTENERS
  inobs,          \* the last click or key press and the events it dispatched
  \* ---- SpecBoxes: the tabs of the browser and the widget hit boxes ----
  tabs,           \* Browser.tabs: of each tab the document shown and needs_render
  active_tab_index, \* Browser.active_tab_index (tabs are counted from 1)
  widget_boxes,   \* Browser._widget_boxes: (rect, element), one list for all tabs
  ndocs,          \* documents loaded so far
  hit,            \* the last click: the tab clicked on and the element hit
  \* ---- SpecLayout: the inline layout of one block ----
  block           \* BlockLayout: x, width, cursor_x, line and display_list

tabVars == <<tasks, stack, js, nctx, discarded, needs_render, RAF_LISTENERS,
             timers, xhrs, nid, dom_writer>>

runnerVars == <<lock, hpc, ui, appended, executed>>

cookieVars == <<COOKIE_JAR, now, obs, marked, past>>

navVars == <<history, history_index, url, referrer_policy, navobs>>

jarVars == <<jthreads>>

cspVars == <<allowed_origins, scan, issued, xthreads, onloads, xobs, cert_error>>

eventVars == <<LISTENERS, evt, frames, ran, dispatched>>

parseVars == <<parser, parsed>>

domVars == <<dom, tab_nodes, handle_to_node, document, display_list, bridge, dom_ops>>

inputVars == <<widgets, old_widgets, focus, handlers, inobs>>

boxVars == <<tabs, active_tab_index, widget_boxes, ndocs, hit>>

lastVars == <<boxVars, block>>

lateVars == <<parseVars, domVars, inputVars, lastVars>>

restVars == <<cspVars, eventVars, lateVars>>

vars == <<tabVars, runnerVars, cookieVars, navVars, jarVars, restVars>>

nonTabVars == <<runnerVars, cookieVars, navVars, jarVars, restVars>>

\* What SpecRunner leaves alone: the tab's state other than the task queue.
nonRunnerVars == <<stack, js, nctx, discarded, needs_render, RAF_LISTENERS, timers,
                   xhrs, nid, dom_writer, cookieVars, navVars, jarVars, restVars>>

\* What SpecCookie leaves alone.
nonCookieVars == <<tabVars, runnerVars, navVars, jarVars, restVars>>

\* What SpecNav leaves alone.
nonNavVars == <<tabVars, runnerVars, now, jarVars, restVars>>

\* ---------------------------------------------------------------- bounds
MaxIds == 3        \* tasks and callbacks created in one behaviour
MaxOps == 1        \* DOM / style bridge calls made by one run of a script or callback
MaxLoads == 2      \* successful loads (JSContexts) in one behaviour
MaxScripts == 3    \* <script src> elements fetched by one load

Ctxs == 1..MaxLoads

\* ---------------------------------------------------------------- helpers
\* Ids in use or reserved: tasks created so far plus helper threads that will
\* create one.
Used == nid + Cardinality(timers) + Cardinality(xhrs)

Top == stack[Len(stack)]

SetTop(f) == [stack EXCEPT ![Len(stack)] = f]

Pop == SubSeq(stack, 1, Len(stack) - 1)

\* A frame of the UI thread's stack. code is what is left to execute in it:
\* "js" is script running in the frame's context, the other steps are native.
Frame(kind, tk, id, ctx, by, code, cbs) ==
  [kind |-> kind, tk |-> tk, id |-> id, ctx |-> ctx, by |-> by,
   code |-> code, cbs |-> cbs, ran |-> (code # <<>> /\ Head(code) = "js"), ops |-> 0]

\* The id of the script or callback a frame is running.
Unit(f) == IF f.kind = "raf" THEN Head(f.cbs).id ELSE f.id

\* Tab.render: nothing unless needs_render; else RAF handlers, layout, paint, draw.
render(nr) == IF nr THEN <<"rafs", "paintdraw">> ELSE <<>>

\* Tab.apply_styles_and_render: style, self.render(), then self.browser.draw().
apply_styles_and_render(nr) == render(nr) \o <<"draw">>

\* dispatch_settimeout without the discarded check
dispatch_settimeout_unchecked(ctx) == <<"js">>

\* JSContext.dispatch_settimeout: drop the callback if the context is discarded.
dispatch_settimeout(ctx) == IF ctx \in discarded THEN <<>> ELSE <<"js">>

\* JSContext.dispatch_xhr_onload: drop the callback if the context is discarded.
dispatch_xhr_onload(ctx) == IF ctx \in discarded THEN <<>> ELSE <<"js">>

\* JSContext.run: evaluates the script body; it does not look at discarded.
JSContext_run(ctx) == <<"js">>

\* Task.run: call task_code(*args). nr is Tab.needs_render at that moment.
Task_run(t, nr) ==
  Frame("task", t.kind, t.id, t.ctx, t.by,
        CASE t.kind = "script" -> JSContext_run(t.ctx)
          [] t.kind = "timer"  -> dispatch_settimeout(t.ctx)
          [] t.kind = "xhr"    -> dispatch_xhr_onload(t.ctx)
          [] OTHER             -> render(nr),
        <<>>)

\* TaskRunner.schedule_task: append under the condition lock.
schedule_task(q, t) == Append(q, t)

\* self.tasks.pop() in place of self.tasks.pop(0)
TaskRunner_pop_last(q) == [task |-> q[Len(q)], rest |-> SubSeq(q, 1, Len(q) - 1)]

\* task = self.tasks.pop(0): the front of the queue, and what is left.
TaskRunner_pop(q) == [task |-> Head(q), rest |-> Tail(q)]

\* TaskRunner.run, called with the UI stack stk: pop one task, if any, and run it.
TaskRunner_run(q, stk, nr) ==
  IF q = <<>>
    THEN /\ tasks' = q
         /\ stack' = stk
    ELSE /\ tasks' = TaskRunner_pop(q).rest
         /\ stack' = Append(stk, Task_run(TaskRunner_pop(q).task, nr))

NewTask(id, kind, ctx, by) == [id |-> id, kind |-> kind, ctx |-> ctx, by |-> by]

\* ---------------------------------------------------------------- Init
\* ---------------------------------------------------------------- strings
\* A Python str is a sequence of tokens; "=", ";", ",", " ", ":" and "://" are
\* tokens of their own, a word ("HttpOnly", "sid", "abc") is one token.

\* str.find(d) + 1: position of the first token d, 0 when absent
IndexOf(s, d) ==
  IF \E i \in 1..Len(s) : s[i] = d
    THEN CHOOSE i \in 1..Len(s) : s[i] = d /\ \A j \in 1..(i - 1) : s[j] # d
    ELSE 0

RECURSIVE str_split(_, _)
\* s.split(d)
str_split(s, d) ==
  LET i == IndexOf(s, d)
  IN IF i = 0 THEN <<s>>
     ELSE <<SubSeq(s, 1, i - 1)>> \o str_split(SubSeq(s, i + 1, Len(s)), d)

\* s.split("=", 1) of a string that holds "="
str_split1(s) ==
  LET i == IndexOf(s, "=")
  IN <<SubSeq(s, 1, i - 1), SubSeq(s, i + 1, Len(s))>>

RECURSIVE str_strip(_)
\* s.strip()
str_strip(s) ==
  IF s # <<>> /\ Head(s) = " " THEN str_strip(Tail(s))
  ELSE IF s # <<>> /\ s[Len(s)] = " " THEN str_strip(SubSeq(s, 1, Len(s) - 1))
  ELSE s

\* [p.strip() for p in parts]
strip_all(parts) == [i \in 1..Len(parts) |-> str_strip(parts[i])]

RECURSIVE str_join(_, _)
\* sep.join(parts)
str_join(parts, sep) ==
  IF parts = <<>> THEN <<>>
  ELSE IF Len(parts) = 1 THEN parts[1]
  ELSE parts[1] \o sep \o str_join(Tail(parts), sep)

\* str.casefold() / str.lower() on the words of the model's alphabet
casefold_word(w) ==
  CASE w \in {"HttpOnly", "HTTPONLY", "httponly"} -> "httponly"
    [] w \in {"SameSite", "samesite"} -> "samesite"
    [] w \in {"Expires", "expires"} -> "expires"
    [] w \in {"Lax", "LAX", "lax"} -> "lax"
    [] w \in {"No-Referrer", "no-referrer"} -> "no-referrer"
    [] w \in {"Same-Origin", "same-origin"} -> "same-origin"
    [] OTHER -> w

casefold(s) == [i \in 1..Len(s) |-> casefold_word(s[i])]

\* the value of an expression that is evaluated once: The({f(x) : x \in {e}})
\* is f(e)
The(S) == CHOOSE x \in S : TRUE

\* ---------------------------------------------------------------- dicts
\* A Python dict is a sequence of [k, v] in insertion order.
DictHas(d, k) == \E i \in 1..Len(d) : d[i].k = k

DictGet(d, k, default) ==
  IF DictHas(d, k) THEN d[CHOOSE i \in 1..Len(d) : d[i].k = k].v ELSE default

\* d[k] = v: an existing key keeps its position
DictSet(d, k, v) ==
  IF DictHas(d, k)
    THEN [i \in 1..Len(d) |-> IF d[i].k = k THEN [k |-> k, v |-> v] ELSE d[i]]
    ELSE Append(d, [k |-> k, v |-> v])

DictPop(d, k) == SelectSeq(d, LAMBDA e : e.k # k)

RECURSIVE DictPopAll(_, _)
DictPopAll(d, ks) == IF ks = <<>> THEN d ELSE DictPopAll(DictPop(d, Head(ks)), Tail(ks))

\* ---------------------------------------------------------------- URL
\* str(int) / int(str) for the ports of the model
PortWord(p) == CASE p = 80 -> "80" [] p = 443 -> "443" [] OTHER -> "8000"

PortOf(w) == CASE w = "80" -> 80 [] w = "443" -> 443 [] OTHER -> 8000

NoURL == [scheme |-> "", host |-> "", port |-> 0, path |-> ""]

\* URL.__init__: the port defaults by scheme when the host part has no ":"
URL_init(s) ==
  IF Len(s) >= 5 /\ s[4] = ":"
    THEN [scheme |-> s[1], host |-> s[3], port |-> PortOf(s[5]),
          path |-> IF Len(s) >= 6 THEN s[6] ELSE "/"]
    ELSE [scheme |-> s[1], host |-> s[3],
          port |-> IF s[1] = "http" THEN 80 ELSE 443,
          path |-> IF Len(s) >= 4 THEN s[4] ELSE "/"]

\* URL.origin
URL_origin(u) == <<u.scheme, "://", u.host, ":", PortWord(u.port)>>

\* URL.__str__: the default port is not shown
URL_str(u) ==
  LET show_port == (u.scheme = "http" /\ u.port # 80) \/ (u.scheme = "https" /\ u.port # 443)
  IN <<u.scheme, "://", u.host>> \o (IF show_port THEN <<":", PortWord(u.port)>> ELSE <<>>)
       \o <<u.path>>

\* The documents of the model: site A on the default port, site B on port 8000.
SiteA == [scheme |-> "http", host |-> "a", port |-> 80, path |-> "/"]

SiteB == [scheme |-> "http", host |-> "b", port |-> 8000, path |-> "/"]

URLs == {SiteA, SiteB}

Origins == {URL_origin(u) : u \in URLs}

\* ---------------------------------------------------------------- cookie values
\* A params value is a str (t = "str") or the float of a timestamp (t = "num").
StrVal(s) == [t |-> "str", s |-> s, n |-> 0]

NumVal(n) == [t |-> "num", s |-> <<>>, n |-> n]

NoTs == -1      \* expires_ts = None

\* Words that stand for "21 Oct 2026 07:28:0<n> GMT": a date whose timestamp is n
DateWords == <<"d0", "d1", "d2", "d3">>

\* Words that float() reads: epoch seconds
NumWords == <<"0", "1", "2", "3">>

\* str(float) of a timestamp, as an f-string prints it
FloatWords == <<"0.0", "1.0", "2.0", "3.0">>

DayNames == {"Wed"}

WordIndex(ws, w) == CHOOSE i \in 1..Len(ws) : ws[i] = w

InWords(ws, w) == \E i \in 1..Len(ws) : ws[i] = w

\* email.utils.parsedate_to_datetime(s).timestamp(); NoTs when it raises.
\* The day name and its comma are optional.
parsedate_to_datetime(s) ==
  IF Len(s) = 1 /\ InWords(DateWords, s[1]) THEN WordIndex(DateWords, s[1]) - 1
  ELSE IF Len(s) = 4 /\ s[1] \in DayNames /\ s[2] = "," /\ s[3] = " " /\ InWords(DateWords, s[4])
    THEN WordIndex(DateWords, s[4]) - 1
  ELSE NoTs

\* float(s); NoTs when it raises
float(s) ==
  IF Len(s) = 1 /\ InWords(NumWords, s[1]) THEN WordIndex(NumWords, s[1]) - 1 ELSE NoTs

\* f"{v}" of a params value
format_value(v) == IF v.t = "num" THEN <<FloatWords[v.n + 1]>> ELSE v.s

RECURSIVE parse_params(_, _)
\* the loop over parts[1:] that fills params (URL.request and set_cookie alike)
parse_params(parts, params) ==
  IF parts = <<>> THEN params
  ELSE LET part == Head(parts)
       IN IF part = <<>> THEN parse_params(Tail(parts), params)
          ELSE IF IndexOf(part, "=") # 0
            THEN LET kv == str_split1(part)
                 IN parse_params(Tail(parts), DictSet(params, casefold(kv[1]), StrVal(kv[2])))
          ELSE parse_params(Tail(parts), DictSet(params, casefold(part), StrVal(<<>>)))

\* "Convert Expires to timestamp if possible"
convert_expires(params) ==
  IF DictHas(params, <<"expires">>)
    THEN LET ts == parsedate_to_datetime(format_value(DictGet(params, <<"expires">>, StrVal(<<>>))))
         IN IF ts # NoTs THEN DictSet(params, <<"expires">>, NumVal(ts)) ELSE params
    ELSE params

RECURSIVE store_cookies(_, _)
\* the loop over cookie_headers that saves each cookie into jar = COOKIE_JAR[jar_key]
store_cookies(jar, cookie_headers) ==
  IF cookie_headers = <<>> THEN jar
  ELSE LET cookie_str == Head(cookie_headers)
           parts == strip_all(str_split(cookie_str, ";"))
       IN IF cookie_str = <<>> THEN store_cookies(jar, Tail(cookie_headers))
          ELSE IF IndexOf(parts[1], "=") = 0 THEN store_cookies(jar, Tail(cookie_headers))
          ELSE LET nv == str_split1(parts[1])
                   params == convert_expires(parse_params(Tail(parts), <<>>))
               IN store_cookies(DictSet(jar, nv[1], [value |-> nv[2], params |-> params]),
                                Tail(cookie_headers))

\* "Store cookies from Set-Cookie header": sc is split on every comma
store_set_cookie(jar, sc) ==
  IF sc = <<>> THEN jar ELSE store_cookies(jar, strip_all(str_split(sc, ",")))

\* expires_ts of the send loop: a falsy Expires (None, "", 0.0) is not looked at
request_expires_ts(params) ==
  LET exp == DictGet(params, <<"expires">>, StrVal(<<>>))
  IN IF exp.t = "num" THEN (IF exp.n = 0 THEN NoTs ELSE exp.n)
     ELSE IF exp.s = <<>> THEN NoTs
     ELSE IF float(exp.s) # NoTs THEN float(exp.s)
     ELSE parsedate_to_datetime(exp.s)

\* A send loop that skips a Lax cookie on every cross-site request.
skip_same_site_any_method(same_site, method, cross_site) ==
  same_site = <<"lax">> /\ cross_site

\* "SameSite=Lax: skip on cross-site POST"
skip_same_site(same_site, method, cross_site) ==
  same_site = <<"lax">> /\ method = "POST" /\ cross_site

RECURSIVE request_cookies(_, _, _, _)
\* the loop over jar.items() that collects cookies and remove_names
request_cookies(items, t, method, cross_site) ==
  IF items = <<>> THEN [cookies |-> <<>>, remove_names |-> <<>>]
  ELSE LET name == Head(items).k
           value == Head(items).v.value
           params == Head(items).v.params
           rest == request_cookies(Tail(items), t, method, cross_site)
           expires_ts == request_expires_ts(params)
           same_site == casefold(format_value(DictGet(params, <<"samesite">>, StrVal(<<>>))))
       IN IF expires_ts # NoTs /\ t > expires_ts
            THEN [rest EXCEPT !.remove_names = <<name>> \o @]
          ELSE IF skip_same_site(same_site, method, cross_site) THEN rest
          ELSE [rest EXCEPT !.cookies = <<name \o <<"=">> \o value>> \o @]

\* cross_site of URL.request; referrer = <<>> is None
request_cross_site(referrer, jar_key) ==
  LET ref_origin == IF referrer # <<>> THEN URL_origin(URL_init(referrer)) ELSE <<>>
  IN ref_origin # <<>> /\ ref_origin # jar_key

\* URL.request with one jar for every origin: that of SiteA
URL_request_one_jar(jars, u, referrer, method, sc, t) ==
  LET jar_key == URL_origin(SiteA)
      r == request_cookies(jars[jar_key], t, method, request_cross_site(referrer, jar_key))
      jar == DictPopAll(jars[jar_key], r.remove_names)
  IN [cookies |-> r.cookies,
      removed |-> r.remove_names,
      built |-> jar,
      header |-> str_join(r.cookies, <<";", " ">>),
      jars |-> [jars EXCEPT ![jar_key] = store_set_cookie(jar, sc)]]

\* URL.request as far as the jar goes: the cookies of the Cookie header, then
\* the jar without the expired cookies and with the response's cookies
URL_request(jars, u, referrer, method, sc, t) ==
  LET jar_key == URL_origin(u)
      r == request_cookies(jars[jar_key], t, method, request_cross_site(referrer, jar_key))
      jar == DictPopAll(jars[jar_key], r.remove_names)
  IN [cookies |-> r.cookies,
      removed |-> r.remove_names,
      built |-> jar,
      header |-> str_join(r.cookies, <<";", " ">>),
      jars |-> [jars EXCEPT ![jar_key] = store_set_cookie(jar, sc)]]

\* any(k.lower() == 'httponly' for k in params)
has_httponly(params) == \E i \in 1..Len(params) : casefold(params[i].k) = <<"httponly">>

\* expires_ts of the read loop: only a stored float or a date string is read
get_cookie_expires_ts(params) ==
  LET exp == DictGet(params, <<"expires">>, StrVal(<<>>))
  IN IF exp.t = "num" THEN (IF exp.n = 0 THEN NoTs ELSE exp.n)
     ELSE IF exp.s = <<>> THEN NoTs
     ELSE parsedate_to_datetime(exp.s)

RECURSIVE cookie_parts(_)
\* the parts of one cookie after name=value: k or k=v for each parameter
cookie_parts(params) ==
  IF params = <<>> THEN <<>>
  ELSE LET k == Head(params).k
           v == Head(params).v
       IN IF casefold(k) = <<"httponly">> THEN cookie_parts(Tail(params))
          ELSE IF v = StrVal(<<>>) THEN <<k>> \o cookie_parts(Tail(params))
          ELSE <<k \o <<"=">> \o format_value(v)>> \o cookie_parts(Tail(params))

RECURSIVE get_cookie_loop(_, _)
\* the loop over jar.items() that collects cookies and expired
get_cookie_loop(items, t) ==
  IF items = <<>> THEN [cookies |-> <<>>, expired |-> <<>>]
  ELSE LET name == Head(items).k
           val == Head(items).v.value
           params == Head(items).v.params
           rest == get_cookie_loop(Tail(items), t)
           expires_ts == get_cookie_expires_ts(params)
       IN IF has_httponly(params) THEN rest
          ELSE IF expires_ts # NoTs /\ t > expires_ts
            THEN [rest EXCEPT !.expired = <<name>> \o @]
          ELSE [rest EXCEPT !.cookies =
                  <<str_join(<<name \o <<"=">> \o val>> \o cookie_parts(params), <<";", " ">>)>> \o @]

\* JSContext.get_cookie for a tab whose document has this origin
get_cookie(jars, origin, t) ==
  LET r == get_cookie_loop(jars[origin], t)
  IN [out |-> str_join(r.cookies, <<";", " ">>),
      removed |-> r.expired,
      jars |-> [jars EXCEPT ![origin] = DictPopAll(@, r.expired)]]

\* A write that never looks for HttpOnly.
set_cookie_forbidden_never(params) == FALSE

\* "If attempting to set an HttpOnly cookie via JS, ignore"
set_cookie_forbidden(params) == has_httponly(params)

\* "Parse Expires into timestamp if provided"
set_cookie_expires(params) ==
  LET exp == DictGet(params, <<"expires">>, StrVal(<<>>))
  IN IF exp.s # <<>> THEN convert_expires(params) ELSE params

\* JSContext.set_cookie for a tab whose document has this origin
set_cookie(jars, origin, cookie_str_in) ==
  LET cookie_str == str_strip(cookie_str_in)
      parts == strip_all(str_split(cookie_str, ";"))
      first == parts[1]
      nv == str_split1(first)
      params == parse_params(Tail(parts), <<>>)
  IN IF cookie_str = <<>> THEN [jars |-> jars, raised |-> FALSE]
     ELSE IF IndexOf(first, "=") = 0 THEN [jars |-> jars, raised |-> FALSE]
     ELSE IF set_cookie_forbidden(params) THEN [jars |-> jars, raised |-> FALSE]
     ELSE [jars |-> [jars EXCEPT ![origin] =
                       DictSet(@, nv[1], [value |-> nv[2], params |-> set_cookie_expires(params)])],
           raised |-> FALSE]

\* ---------------------------------------------------------------- inputs
\* A cookie as a server or a script writes it: name=value and attributes.
CookieStr(name, value, attrs) ==
  str_join(<<<<name, "=", value>>>> \o attrs, <<";", " ">>)

AttrHttpOnly == <<"HttpOnly">>

AttrLax == <<"SameSite", "=", "Lax">>

\* Expires as an RFC 1123 date with its day name: "Wed, 21 Oct 2026 ..."
AttrExpires(n) == <<"Expires", "=", "Wed", ",", " ", DateWords[n + 1]>>

\* Expires as a date without day name, which has no comma
AttrExpiresBare(n) == <<"Expires", "=", DateWords[n + 1]>>

\* Expires as epoch seconds
AttrExpiresEpoch(n) == <<"Expires", "=", NumWords[n + 1]>>

\* The cookies of the responses: [name, value, attrs]
ServerCookie(name, attrs) ==
  [name |-> name, value |-> IF name = "sid" THEN "abc" ELSE "xyz", attrs |-> attrs]

\* Set-Cookie headers of site A: each a list of Set-Cookie lines
SetCookiesA ==
  { <<>>,
    <<ServerCookie("sid", <<AttrLax, AttrHttpOnly>>)>>,
    <<ServerCookie("sid", <<AttrExpires(1), AttrHttpOnly>>)>>,
    <<ServerCookie("k", <<<<"samesite", "=", "LAX">>>>)>>,
    <<ServerCookie("k", <<AttrExpiresBare(1)>>)>>,
    <<ServerCookie("sid", <<<<"httponly">>>>), ServerCookie("k", <<>>)>>,
    <<ServerCookie("k", <<AttrExpiresEpoch(1)>>)>>,
    <<ServerCookie("sid", <<AttrHttpOnly, AttrExpiresBare(1)>>)>> }

\* Set-Cookie headers of site B
SetCookiesB == { <<>> }

SetCookiesOf(u) == IF u = SiteA THEN SetCookiesA ELSE SetCookiesB

\* The requests made to u: every method and referrer, and the responses that
\* set cookies
RequestInputs(u) ==
  [method : {"GET", "POST"}, ref : URLs \cup {NoURL}, lines : {<<>>}]
    \cup [method : {"GET"}, ref : {NoURL}, lines : SetCookiesOf(u) \ {<<>>}]

\* "Collect duplicate headers": the lines joined by ", "
SetCookieHeader(lines) ==
  str_join([i \in 1..Len(lines) |-> CookieStr(lines[i].name, lines[i].value, lines[i].attrs)],
           <<",", " ">>)

\* The strings scripts assign to document.cookie
ScriptCookies ==
  { [name |-> "sid", value |-> "evil", attrs |-> <<>>],
    [name |-> "k", value |-> "evil", attrs |-> <<AttrLax>>],
    [name |-> "k", value |-> "evil", attrs |-> <<AttrHttpOnly>>],
    [name |-> "sid", value |-> "evil", attrs |-> <<AttrExpires(0), <<"HTTPONLY">>>>] }

ScriptCookiesOf(u) ==
  IF u = SiteA THEN ScriptCookies ELSE {[name |-> "sid", value |-> "evil", attrs |-> <<>>]}

\* The cookie, as written, carries the HttpOnly attribute
CarriesHttpOnly(c) ==
  \E i \in 1..Len(c.attrs) : c.attrs[i][1] \in {"HttpOnly", "httponly", "HTTPONLY"}

RECURSIVE MarkedAfter(_, _, _)
\* the <<origin, name>> marked HttpOnly once the lines of a response are stored
MarkedAfter(m, origin, lines) ==
  IF lines = <<>> THEN m
  ELSE MarkedAfter(IF CarriesHttpOnly(Head(lines))
                     THEN m \cup {<<origin, Head(lines).name>>}
                     ELSE m \ {<<origin, Head(lines).name>>},
                   origin, Tail(lines))

\* the marks of the cookies a loop removed as expired
Unmark(m, origin, names) ==
  {x \in m : ~(x[1] = origin /\ \E i \in 1..Len(names) : names[i] = <<x[2]>>)}

\* the time the Expires attribute of a cookie names as it was written
SentExpires(c) ==
  IF \E i \in 1..Len(c.attrs) : c.attrs[i][1] = "Expires"
    THEN LET a == c.attrs[CHOOSE i \in 1..Len(c.attrs) : c.attrs[i][1] = "Expires"]
             w == a[Len(a)]
         IN IF InWords(DateWords, w) THEN WordIndex(DateWords, w) - 1
            ELSE WordIndex(NumWords, w) - 1
    ELSE NoTs

RECURSIVE PastAfter(_, _, _, _)
\* the <<origin, name>> set with an Expires before t once the lines of a
\* response of that origin are stored; the marks of its earlier responses go
PastAfter(p, origin, lines, t) ==
  IF lines = <<>> THEN p
  ELSE PastAfter(IF SentExpires(Head(lines)) # NoTs /\ SentExpires(Head(lines)) < t
                   THEN p \cup {<<origin, Head(lines).name>>}
                   ELSE p \ {<<origin, Head(lines).name>>},
                 origin, Tail(lines), t)

PastOf(origin) == {x[2] : x \in {y \in past : y[1] = origin}}

NoObs ==
  [op |-> "none", url |-> NoURL, method |-> "", referrer |-> NoURL, form |-> FALSE,
   doc |-> NoURL, t |-> 0, pre |-> [o \in Origins |-> <<>>], cookies |-> <<>>,
   out |-> <<>>, httponly |-> FALSE, raised |-> FALSE, built |-> <<>>, past |-> {},
   policy |-> ""]

CookieInit ==
  /\ COOKIE_JAR = [o \in Origins |-> <<>>]
  /\ now = 0
  /\ obs = NoObs
  /\ marked = {}
  /\ past = {}

\* The threads that call URL.request: the UI thread (Tab.load, a synchronous
\* XHR) and the thread of an asynchronous XHR
JarThreads == {"ui", "xhr"}

JarIdle ==
  [pc |-> "idle", i |-> 0, size |-> 0, cookies |-> <<>>, remove_names |-> <<>>,
   lines |-> <<>>, raised |-> FALSE, lost |-> FALSE]

JarInit == jthreads = [th \in JarThreads |-> JarIdle]

\* a body argument: None, or a str
NoBody == [none |-> TRUE, s |-> <<>>]

Body(s) == [none |-> FALSE, s |-> s]

NoNavObs == [op |-> "", u |-> NoURL, method |-> "", body |-> NoBody, cut |-> 0,
             loaded |-> FALSE, ok |-> FALSE, payload |-> NoBody]

NavInit ==
  /\ history = <<>>
  /\ history_index = -1
  /\ url = NoURL
  /\ referrer_policy = ""
  /\ navobs = NoNavObs

\* ---------------------------------------------------------------- CSP
\* Tab.allowed_origins: None, or the set of the default-src tokens
NoPolicy == [set |-> FALSE, items |-> {}]

RECURSIVE str_rstrip(_, _)
\* s.rstrip(c)
str_rstrip(s, c) ==
  IF s # <<>> /\ s[Len(s)] = c THEN str_rstrip(SubSeq(s, 1, Len(s) - 1), c) ELSE s

\* s.split(): the words between runs of whitespace
str_words(s) == SelectSeq(str_split(s, " "), LAMBDA w : w # <<>>)

\* parts.index(w) + 1, 0 for ValueError
parts_index(parts, w) ==
  IF \E i \in 1..Len(parts) : parts[i] = w
    THEN CHOOSE i \in 1..Len(parts) : parts[i] = w /\ \A j \in 1..(i - 1) : parts[j] # w
    ELSE 0

\* Tab.load, "Parse Content-Security-Policy for allowed origins"; csp = <<>>
\* when the response has no such header
csp_allowed_origins(csp) ==
  IF csp # <<>> /\ IndexOf(csp, "default-src") # 0
    THEN LET parts == str_words(csp)
             idx == parts_index(parts, <<"default-src">>)
             allowed == {str_rstrip(str_strip(parts[i]), ";") : i \in (idx + 1)..Len(parts)}
                          \ {<<>>}
         IN IF idx = 0 \/ allowed = {} THEN NoPolicy ELSE [set |-> TRUE, items |-> allowed]
    ELSE NoPolicy

\* Tab.allowed_request with every origin allowed
allowed_request_any(ao, u) == TRUE

\* Tab.allowed_request
allowed_request(ao, u) == ~ao.set \/ URL_origin(u) \in ao.items

\* URL.resolve of an absolute URL or of a path that starts with "/"
URL_resolve(base, s) ==
  IF IndexOf(s, "://") # 0 THEN URL_init(s)
  ELSE URL_init(<<base.scheme, "://", base.host, ":", PortWord(base.port), s[1]>>)

\* The documents of SpecCsp: https://self.example/ and site B
SelfPage == [scheme |-> "https", host |-> "self.example", port |-> 443, path |-> "/"]

Pages == {SelfPage, SiteB}

OkJs == <<"https", "://", "self.example", "/ok.js">>

CdnJs == <<"https", "://", "cdn", "/lib.js">>

AppJs == <<"/app.js">>

SelfCss == <<"https", "://", "self.example", "/s.css">>

BCss == <<"http", "://", "b", ":", "8000", "/s.css">>

Script(src) == [tag |-> "script", attr |-> src]

Link(href) == [tag |-> "link", attr |-> href]

\* the <script src> and <link rel=stylesheet href> elements of the documents served
Docs == { <<>>, <<Script(OkJs), Script(CdnJs)>>, <<Link(SelfCss), Script(AppJs)>> }

\* the Content-Security-Policy headers served (<<>> = none)
Policies ==
  { <<>>,
    <<"default-src", " ", "https", "://", "self.example", "/">>,
    <<"default-src", " ", "https", "://", "self.example", ":", "443", ";", " ",
      "http", "://", "b", ":", "8000">>,
    <<"default-src", " ", "http", "://", "b", ":", "8000", ";">>,
    <<"default-src", ";">> }

\* the Access-Control-Allow-Origin headers served (<<>> = none)
\* the handles of the XMLHttpRequest objects of a document's scripts
Handles == {1}

AcaoValues == {<<>>, <<"*">>} \cup {URL_origin(p) : p \in Pages}

\* Tab.loaded_scripts, Tab.loaded_styles (a dict from link element to its
\* rules; an element is named by its place in nodes, which it keeps when it is
\* taken out of the tree), Tab.extra_style_rules and what the last
\* process_scripts_and_styles did; attempts and runs list the src values whose
\* fetch was attempted and whose run task was scheduled since the last load
NoScan == [op |-> "", nodes |-> <<>>, loaded_scripts |-> {}, loaded_styles |-> <<>>,
           extra_style_rules |-> <<>>, fetched |-> <<>>, tasks |-> <<>>,
           dropped |-> <<>>, ok |-> TRUE, attempts |-> <<>>, runs |-> <<>>]

\* an element that is no longer in the tree of Tab.nodes: tree_to_list does
\* not visit it
Detached(node) == [node EXCEPT !.tag = IF @ = "script" THEN "-script" ELSE "-link"]

\* the element put back into the tree
Attached(node) == [node EXCEPT !.tag = IF @ = "-script" THEN "script" ELSE "link"]

InTree(node) == node.tag \in {"script", "link"}

\* the rules CSSParser(css_body).parse() gives for the sheet at target: one
\* rule naming the sheet; a failed request or a parse error gives []
sheet_rules(target, ok) == IF ok THEN <<target>> ELSE <<>>

RECURSIVE scan_nodes(_, _, _, _, _, _)
\* the loop of Tab.process_scripts_and_styles from node i on; st holds
\* loaded_scripts, the old loaded_styles, new_loaded_styles and the requests
\* sent, tasks scheduled and elements skipped so far
scan_nodes(nodes, i, u, ao, ok, st) ==
  IF i > Len(nodes) THEN st
  ELSE LET node == nodes[i]
           target == URL_resolve(u, node.attr)
           st1 ==
             IF ~InTree(node) THEN st
             ELSE IF node.tag = "script"
               THEN IF node.attr \in st.loaded_scripts THEN st
                    ELSE IF ~allowed_request(ao, target)
                      THEN [st EXCEPT !.loaded_scripts = @ \cup {node.attr},
                                      !.dropped = Append(@, node.attr)]
                    ELSE [st EXCEPT !.loaded_scripts = @ \cup {node.attr},
                                    !.fetched = Append(@, [kind |-> "script", to |-> target, node |-> i]),
                                    !.tried = Append(@, node.attr),
                                    !.tasks = IF ok THEN Append(@, node.attr) ELSE @]
             ELSE IF ~allowed_request(ao, target)
               THEN [st EXCEPT !.dropped = Append(@, node.attr)]
             ELSE IF ~DictHas(st.old_styles, i)
               THEN [st EXCEPT !.new_styles = DictSet(@, i, sheet_rules(target, ok)),
                               !.fetched = Append(@, [kind |-> "style", to |-> target, node |-> i])]
             ELSE [st EXCEPT !.new_styles = DictSet(@, i, DictGet(st.old_styles, i, <<>>))]
       IN scan_nodes(nodes, i + 1, u, ao, ok, st1)

RECURSIVE extend_rules(_, _)
\* extra.extend(rules) for rules in self.loaded_styles.values(), from entry i on
extend_rules(styles, i) ==
  IF i > Len(styles) THEN <<>> ELSE styles[i].v \o extend_rules(styles, i + 1)

\* the state of the loop before its first node
ScanStart(loaded_scripts, loaded_styles) ==
  [loaded_scripts |-> loaded_scripts, old_styles |-> loaded_styles,
   new_styles |-> <<>>, fetched |-> <<>>, tasks |-> <<>>, tried |-> <<>>,
   dropped |-> <<>>]

\* what a scan leaves in the tab, from the state st of its loop
ScanResult(nodes, ok, st) ==
  [op |-> "scan", nodes |-> nodes, loaded_scripts |-> st.loaded_scripts,
   loaded_styles |-> st.new_styles,
   extra_style_rules |-> extend_rules(st.new_styles, 1),
   fetched |-> st.fetched, tasks |-> st.tasks,
   dropped |-> st.dropped, ok |-> ok, attempts |-> st.tried, runs |-> st.tasks]

\* a scan that starts from an empty loaded_scripts
process_scripts_and_styles_forgetful(nodes, u, ao, ok, loaded_scripts, loaded_styles) ==
  The({ ScanResult(nodes, ok, st)
          : st \in {scan_nodes(nodes, 1, u, ao, ok, ScanStart({}, loaded_styles))} })

\* a scan that starts from an empty loaded_styles
process_scripts_and_styles_refetching(nodes, u, ao, ok, loaded_scripts, loaded_styles) ==
  The({ ScanResult(nodes, ok, st)
          : st \in {scan_nodes(nodes, 1, u, ao, ok, ScanStart(loaded_scripts, <<>>))} })

\* Tab.process_scripts_and_styles
process_scripts_and_styles(nodes, u, ao, ok, loaded_scripts, loaded_styles) ==
  The({ ScanResult(nodes, ok, st)
          : st \in {scan_nodes(nodes, 1, u, ao, ok,
                               ScanStart(loaded_scripts, loaded_styles))} })

\* origin o is in the policy ao, or there is no policy
OriginAllowed(ao, o) == ~ao.set \/ o \in ao.items

\* the requests of a scan, each with Tab.allowed_origins as it was when the
\* request was sent, and whether the origin was in the policy when
\* allowed_request was asked
IssuedBy(fetched, ao) ==
  {[kind |-> fetched[i].kind, to |-> URL_origin(fetched[i].to),
    checked |-> OriginAllowed(ao, URL_origin(fetched[i].to)), sent_under |-> ao]
     : i \in 1..Len(fetched)}

NoXobs == [op |-> "", target |-> <<>>, sender |-> <<>>, acao |-> <<>>, isasync |-> FALSE,
           started |-> FALSE, requested |-> FALSE, raised |-> FALSE, onload |-> FALSE, body |-> FALSE]

CspInit ==
  /\ allowed_origins = NoPolicy
  /\ scan = NoScan
  /\ issued = {}
  /\ xthreads = {}
  /\ onloads = {}
  /\ xobs = NoXobs
  /\ cert_error = FALSE


\* ---------------------------------------------------------------- events
\* The handles of the elements: 1 is the root, the parent of n is n - 1.
TreeDepth == 3

Elements == 1..TreeDepth

\* call_python("getParent", handle): -1 at the root
getParent(h) == IF h = 1 THEN -1 ELSE h - 1

\* new Event(type)
NewEvent == [do_default |-> TRUE, do_bubble |-> TRUE]

\* what a listener does with the event it is called with
Listeners == {"nothing", "preventDefault", "stopPropagation", "both"}

\* Event.prototype.preventDefault / stopPropagation, as the listener l calls them
call_listener(l, e) ==
  [do_default |-> e.do_default /\ l \notin {"preventDefault", "both"},
   do_bubble |-> e.do_bubble /\ l \notin {"stopPropagation", "both"}]

NoDispatch == [target |-> 0, done |-> FALSE, ret |-> FALSE]

EventInit ==
  /\ LISTENERS = [h \in Elements |-> <<>>]
  /\ evt = NewEvent
  /\ frames = <<>>
  /\ ran = <<>>
  /\ dispatched = NoDispatch

TabInit ==
  /\ tasks = <<>>
  /\ stack = <<>>
  /\ js = 0
  /\ nctx = 0
  /\ discarded = {}
  /\ needs_render = FALSE
  /\ RAF_LISTENERS = [c \in Ctxs |-> <<>>]
  /\ timers = {}
  /\ xhrs = {}
  /\ nid = 0
  /\ dom_writer = 0

NHelpers == 3      \* helper threads calling schedule_task

Helpers == 1..NHelpers

RunnerInit ==
  /\ lock = 0
  /\ hpc = [h \in Helpers |-> "start"]
  /\ ui = <<>>
  /\ appended = <<>>
  /\ executed = <<>>

\* ---------------------------------------------------------------- HTMLParser
\* The document text is a str of tokens: "<" and ">" are tokens of their own, a
\* tag name ("p", "/p", "br") or a word of text ("Hello") is one token.
None == "None"

SELF_CLOSING_TAGS == {"area", "base", "br", "col", "embed", "hr", "img", "input",
                      "link", "meta", "param", "source", "track", "wbr"}

HEAD_TAGS == {"base", "basefont", "bgsound", "noscript",
              "link", "meta", "title", "style", "script"}

\* str.startswith("/") and str.startswith("!") on the words of the alphabet
StartsWithSlash(w) == w \in {"/p", "/b", "/html", "/head", "/body"}

StartsWithBang(w) == w \in {"!doctype"}

\* str.isspace()
str_isspace(s) == s # <<>> /\ \A i \in 1..Len(s) : s[i] = " "

\* class Text / class Element; a node is named by its position in the node
\* table, 0 is None
Text(text, parent) ==
  [kind |-> "Text", tag |-> "", text |-> text, attributes |-> <<>>,
   parent |-> parent, children |-> <<>>]

Element(tag, attributes, parent) ==
  [kind |-> "Element", tag |-> tag, text |-> <<>>, attributes |-> attributes,
   parent |-> parent, children |-> <<>>]

\* HTMLParser.__init__
HTMLParser(body) ==
  [body |-> body, text |-> <<>>, in_tag |-> FALSE, nodes |-> <<>>, unfinished |-> <<>>]

RECURSIVE get_attribute_pairs(_)
get_attribute_pairs(parts) ==
  IF parts = <<>> THEN <<>>
  ELSE LET attrpair == Head(parts)
           rest == get_attribute_pairs(Tail(parts))
       IN IF IndexOf(attrpair, "=") # 0
            THEN LET kv == str_split1(attrpair)
                     value == kv[2]
                     unquoted == IF Len(value) > 2 /\ value[1] \in {"'", "\""}
                                   THEN SubSeq(value, 2, Len(value) - 1) ELSE value
                 IN <<[k |-> casefold(kv[1]), v |-> unquoted]>> \o rest
            ELSE <<[k |-> casefold(attrpair), v |-> <<>>]>> \o rest

RECURSIVE dict_of(_, _)
\* the dict the assignments attributes[k] = v build, in order
dict_of(d, pairs) ==
  IF pairs = <<>> THEN d ELSE dict_of(DictSet(d, Head(pairs).k, Head(pairs).v), Tail(pairs))

\* HTMLParser.get_attributes: the tag is the first word, casefolded
get_attributes(text) ==
  LET parts == str_words(text)
  IN IF parts = <<>> THEN [tag |-> "", attributes |-> <<>>]
     ELSE [tag |-> casefold_word(parts[1][1]),
           attributes |-> dict_of(<<>>, get_attribute_pairs(Tail(parts)))]

\* [node.tag for node in self.unfinished]
open_tags(P) == [i \in 1..Len(P.unfinished) |-> P.nodes[P.unfinished[i]].tag]

\* self.unfinished[-1] if self.unfinished else None
unfinished_top(P) == IF P.unfinished = <<>> THEN 0 ELSE P.unfinished[Len(P.unfinished)]

\* node = Text(...) / Element(...); parent.children.append(node)
append_node(P, node) ==
  LET id == Len(P.nodes) + 1
  IN [P EXCEPT !.nodes = [Append(P.nodes, node) EXCEPT ![node.parent].children = Append(@, id)]]

\* node = Element(tag, attributes, parent); self.unfinished.append(node)
push_node(P, node) ==
  [P EXCEPT !.nodes = Append(@, node), !.unfinished = Append(@, Len(P.nodes) + 1)]

\* node = self.unfinished.pop() without parent.children.append(node)
pop_unfinished_dropped(P) ==
  [P EXCEPT !.unfinished = SubSeq(@, 1, Len(@) - 1)]

\* node = self.unfinished.pop(); parent = self.unfinished[-1];
\* parent.children.append(node)
pop_unfinished(P) ==
  LET node == P.unfinished[Len(P.unfinished)]
      parent == P.unfinished[Len(P.unfinished) - 1]
  IN [P EXCEPT !.unfinished = SubSeq(@, 1, Len(@) - 1),
               !.nodes[parent].children = Append(@, node)]

RECURSIVE HTMLParser_call(_, _, _)
\* HTMLParser.implicit_tags(arg) and HTMLParser.add_tag(arg), which call each
\* other: fn names the method called
HTMLParser_call(P, fn, arg) ==
  IF fn = "implicit_tags"
    THEN LET implied ==
               IF open_tags(P) = <<>> /\ arg # "html" THEN <<"html">>
               ELSE IF open_tags(P) = <<"html">> /\ arg \notin {"head", "body", "/html"}
                 THEN IF arg \in HEAD_TAGS THEN <<"head">> ELSE <<"body">>
               ELSE IF open_tags(P) = <<"html", "head">>
                       /\ arg \notin ({"/head"} \cup HEAD_TAGS)
                 THEN <<"/head">>
               ELSE <<>>
             Q == HTMLParser_call(P, "add_tag", implied)
         IN IF implied = <<>> THEN P ELSE HTMLParser_call(Q, "implicit_tags", arg)
    ELSE IF arg # <<>> /\ StartsWithBang(arg[1]) THEN P
         ELSE LET ta == get_attributes(arg)
                  tag == ta.tag
                  Q == HTMLParser_call(P, "implicit_tags", tag)
                  R == IF unfinished_top(Q) = 0
                         THEN HTMLParser_call(Q, "implicit_tags", tag) ELSE Q
              IN IF StartsWithSlash(tag)
                   THEN IF Len(Q.unfinished) = 1 THEN Q ELSE pop_unfinished(Q)
                 ELSE IF tag \in SELF_CLOSING_TAGS
                   THEN append_node(R, Element(tag, ta.attributes, unfinished_top(R)))
                 ELSE push_node(Q, Element(tag, ta.attributes, unfinished_top(Q)))

\* HTMLParser.implicit_tags
implicit_tags(P, tag) == HTMLParser_call(P, "implicit_tags", tag)

\* HTMLParser.add_tag
add_tag(P, tagtext) == HTMLParser_call(P, "add_tag", tagtext)


\* HTMLParser.add_text: Q is the parser after implicit_tags(None), R after
\* the second call made when nothing is open
add_text(P, text) ==
  IF str_isspace(text) THEN P
  ELSE The({ The({ append_node(R, Text(text, unfinished_top(R))) :
                   R \in {IF unfinished_top(Q) = 0 THEN implicit_tags(Q, None) ELSE Q} }) :
             Q \in {implicit_tags(P, None)} })

\* one iteration of the loop of HTMLParser.parse, on the character c
parse_char(P, c) ==
  IF c = "<"
    THEN [(IF P.text # <<>> THEN add_text(P, P.text) ELSE P)
            EXCEPT !.in_tag = TRUE, !.text = <<>>]
  ELSE IF c = ">"
    THEN [add_tag(P, P.text) EXCEPT !.in_tag = FALSE, !.text = <<>>]
  ELSE [P EXCEPT !.text = Append(@, c)]

RECURSIVE pop_all(_)
\* while len(self.unfinished) > 1: pop and append to the parent
pop_all(P) == IF Len(P.unfinished) > 1 THEN pop_all(pop_unfinished(P)) ELSE P

\* HTMLParser.finish: the node table when it returns self.unfinished.pop()
finish(P) ==
  LET Q == pop_all(IF P.unfinished = <<>> THEN implicit_tags(P, None) ELSE P)
  IN [Q EXCEPT !.unfinished = <<>>]

\* the node finish returns
finish_root(P) ==
  pop_all(IF P.unfinished = <<>> THEN implicit_tags(P, None) ELSE P).unfinished[1]

\* what HTMLParser.parse does after its loop
parse_end(P) ==
  The({ finish(Q) : Q \in {IF ~P.in_tag /\ P.text # <<>> THEN add_text(P, P.text) ELSE P} })

parse_end_root(P) ==
  The({ finish_root(Q) :
        Q \in {IF ~P.in_tag /\ P.text # <<>> THEN add_text(P, P.text) ELSE P} })

RECURSIVE parse_loop(_, _)
parse_loop(P, s) == IF s = <<>> THEN P ELSE parse_loop(parse_char(P, Head(s)), Tail(s))

\* HTMLParser(body).parse(): the node table and the root
HTMLParser_parse(body) ==
  The({ [nodes |-> parse_end(P).nodes, root |-> parse_end_root(P)] :
        P \in {parse_loop(HTMLParser(body), body)} })

MaxBody == 5       \* characters of a document given to HTMLParser

BodyChars == {"<", ">", "Hello", "World", "p", "/p", "br", "html"}

ParseInit ==
  /\ parser = HTMLParser(<<>>)
  /\ parsed = 0

\* ---------------------------------------------------------------- DOM bridge
\* The nodes of the tab's process are the entries of the node table dom (a
\* node is named by its position, 0 is None); Tab.nodes is tab_nodes.
MaxCreated == 1    \* elements a script creates with createElement
MaxDomOps == 1     \* calls that change the DOM in one behaviour of SpecDom

Range(s) == {s[i] : i \in 1..Len(s)}

\* a lookup that gives a missing handle the node of another one
handle_to_node_get_wrapped(H, h) == IF H = <<>> THEN 0 ELSE H[(h % Len(H)) + 1]

\* self.handle_to_node.get(handle): handle h is entry h + 1 of the table
handle_to_node_get(H, h) == IF h >= 0 /\ h < Len(H) THEN H[h + 1] ELSE 0

\* get_handle that gives every node it is asked about a new handle
get_handle_table_fresh(H, elt) == Append(H, elt)

\* JSContext.get_handle: the table after the call, and the handle returned
get_handle_table(H, elt) == IF elt \in Range(H) THEN H ELSE Append(H, elt)

get_handle(H, elt) == IndexOf(get_handle_table(H, elt), elt) - 1

\* isinstance(node, Element)
isElement(N, n) == n # 0 /\ N[n].kind = "Element"

\* list.remove(x) of an x the list holds: the first occurrence goes
list_remove(s, x) ==
  SubSeq(s, 1, IndexOf(s, x) - 1) \o SubSeq(s, IndexOf(s, x) + 1, Len(s))

\* list.insert(idx, x), idx counted from 1
list_insert(s, idx, x) == SubSeq(s, 1, idx - 1) \o <<x>> \o SubSeq(s, idx, Len(s))

\* the child is left in the children of its old parent
detach_skipped(N, child) == N

\* if child.parent is not None: try child.parent.children.remove(child)
\* except ValueError: pass
detach(N, child) ==
  IF N[child].parent # 0 /\ child \in Range(N[N[child].parent].children)
    THEN [N EXCEPT ![N[child].parent].children = list_remove(@, child)]
    ELSE N

RECURSIVE Reach(_, _, _)
\* the nodes reached from the nodes of S by at most k steps along children
Reach(N, S, k) ==
  IF k = 0 THEN S
  ELSE Reach(N, S \cup UNION {Range(N[n].children) : n \in S}, k - 1)

\* tree_to_list(tree, []) does not return: a node below tree is below itself
RecursionError(N, tree) ==
  tree # 0 /\ \E n \in Reach(N, {tree}, Len(N)) :
                n \in Reach(N, Range(N[n].children), Len(N))

RECURSIVE tree_walk(_, _)
\* the recursion of tree_to_list: pending holds the nodes still to visit
tree_walk(N, pending) ==
  IF pending = <<>> THEN <<>>
  ELSE <<Head(pending)>> \o tree_walk(N, N[Head(pending)].children \o Tail(pending))

\* tree_to_list(tree, []), of a tree it returns on
tree_to_list(N, tree) == IF tree = 0 THEN <<>> ELSE tree_walk(N, <<tree>>)

RECURSIVE get_handles(_, _)
\* [self.get_handle(n) for n in nodes]: the table after the calls
get_handles(H, ns) ==
  IF ns = <<>> THEN H ELSE get_handles(get_handle_table(H, Head(ns)), Tail(ns))

\* JSContext.update_ids: every element of the tree with an id attribute that
\* is a word gets a handle (the words of the alphabet start with a letter)
update_ids(N, H, tree) ==
  get_handles(H, SelectSeq(tree_to_list(N, tree),
                           LAMBDA n : /\ N[n].kind = "Element"
                                      /\ DictHas(N[n].attributes, <<"id">>)
                                      /\ DictGet(N[n].attributes, <<"id">>, <<>>) # <<>>))

\* Tab.document, Tab.display_list and Tab.needs_render
NoLayout == [tree |-> 0, nodes |-> <<>>]

\* DocumentLayout(self.nodes) after layout(): the tree it was built from
DocumentLayout(N, tree) == [tree |-> tree, nodes |-> N]

\* paint_tree(self.document, []): the drawing commands of the texts, in order
paint_tree(layout) ==
  SelectSeq(tree_to_list(layout.nodes, layout.tree),
            LAMBDA n : layout.nodes[n].kind = "Text")

\* Tab.render: returns at once unless needs_render
Tab_render(R, N, tree) ==
  IF ~R.needs_render THEN R
  ELSE [document |-> DocumentLayout(N, tree),
        display_list |-> paint_tree(DocumentLayout(N, tree)),
        needs_render |-> FALSE]

\* Tab.apply_styles_and_render: nothing without a DOM; else style and render
Tab_apply_styles_and_render(R, N, tree) == IF tree = 0 THEN R ELSE Tab_render(R, N, tree)

\* what a bridge call that changed the DOM does next: the rescan of
\* process_scripts_and_styles walks the tree (RecursionError on a cycle), then
\* apply_styles_and_render and, where ids is set, update_ids
after_mutation(N, H, R, tree, ids) ==
  IF RecursionError(N, tree)
    THEN [raised |-> TRUE, handles |-> H, layout |-> R]
    ELSE [raised |-> FALSE,
          handles |-> IF ids THEN update_ids(N, H, tree) ELSE H,
          layout |-> Tab_apply_styles_and_render(R, N, tree)]

\* what the last bridge call was, and what it returned
\* node is the node the call was about (the child of a tree call), done says
\* that the call went past its checks of the handles
NoBridge ==
  [op |-> "", node |-> 0, s |-> <<>>, missing |-> FALSE, done |-> FALSE,
   raised |-> FALSE, ret |-> <<>>]

Bridge(op, node, s, missing, done, raised, ret) ==
  [op |-> op, node |-> node, s |-> s, missing |-> missing, done |-> done,
   raised |-> raised, ret |-> ret]

Layout == [document |-> document, display_list |-> display_list,
           needs_render |-> needs_render]

DomInit ==
  /\ dom = <<>>
  /\ tab_nodes = 0
  /\ handle_to_node = <<>>
  /\ document = NoLayout
  /\ display_list = <<>>
  /\ bridge = NoBridge
  /\ dom_ops = 0

NoInput == [op |-> "", elt |-> 0, char |-> "", events |-> <<>>, ok |-> FALSE, dest |-> NoURL]

NoScript == [handles |-> {}, listeners |-> <<>>]

NTabs == 2         \* tabs of the browser

\* a tab before its first load: no document, needs_render = False
NoTab == [doc |-> 0, nw |-> 0, needs_render |-> FALSE]

\* no element: None
NoElement == [doc |-> 0, w |-> 0]

NoHit == [tab |-> 0, elt |-> NoElement, doc |-> 0]

BoxInit ==
  /\ tabs = [t \in 1..NTabs |-> NoTab]
  /\ active_tab_index = 1
  /\ widget_boxes = <<>>
  /\ ndocs = 0
  /\ hit = NoHit

\* a block that has not been laid out
NoBlock == [x |-> 0, width |-> 0, cursor_x |-> 0, line |-> <<>>, display_list |-> <<>>,
            words |-> 0]

LayoutInit == block = NoBlock

InputInit ==
  /\ widgets = <<>>
  /\ old_widgets = <<>>
  /\ focus = 0
  /\ handlers = NoScript
  /\ inobs = NoInput

Init ==
  /\ TabInit /\ RunnerInit /\ CookieInit /\ NavInit /\ JarInit /\ CspInit /\ EventInit
  /\ ParseInit /\ DomInit /\ InputInit /\ BoxInit /\ LayoutInit

\* ---------------------------------------------------------------- UI events
\* Tab.load(url) succeeding, on a page with n fetched <script src> elements.
\* The old context is marked discarded, a new one is created, each script is
\* enqueued as Task(self.js.run, body); then apply_styles_and_render and draw.
Tab_load_discard(old) == IF old # 0 THEN discarded \cup {old} ELSE discarded

ScriptTasks(first, n, ctx) == [i \in 1..n |-> NewTask(first + i, "script", ctx, 0)]

Load(n) ==
  /\ stack = <<>>
  /\ nctx < MaxLoads
  /\ Used + n <= MaxIds
  /\ nctx' = nctx + 1
  /\ js' = nctx + 1
  /\ discarded' = Tab_load_discard(js)
  /\ nid' = nid + n
  /\ tasks' = tasks \o ScriptTasks(nid, n, nctx + 1)
  /\ dom_writer' = 0
  /\ stack' = <<Frame("load", "-", 0, nctx + 1, 0,
                      apply_styles_and_render(needs_render) \o <<"draw">>, <<>>)>>
  /\ UNCHANGED <<needs_render, RAF_LISTENERS, timers, xhrs>>
  /\ UNCHANGED nonTabVars

\* The event loop's tick (SkiaRenderer.mainloop): run one pending task.
MainloopTick ==
  /\ stack = <<>>
  /\ tasks # <<>>
  /\ TaskRunner_run(tasks, stack, needs_render)
  /\ UNCHANGED <<js, nctx, discarded, needs_render, RAF_LISTENERS, timers, xhrs,
                 nid, dom_writer>>
  /\ UNCHANGED nonTabVars

\* ---------------------------------------------------------------- native steps
InNative == stack # <<>> /\ Top.code # <<>> /\ Head(Top.code) # "js"

Rest == [Top EXCEPT !.code = Tail(@)]

\* Browser.draw: run one pending task of the current tab, then paint.
Draw ==
  /\ InNative
  /\ Head(Top.code) = "draw"
  /\ TaskRunner_run(tasks, SetTop(Rest), needs_render)
  /\ UNCHANGED <<js, nctx, discarded, needs_render, RAF_LISTENERS, timers, xhrs,
                 nid, dom_writer>>
  /\ UNCHANGED nonTabVars

\* Tab.render after the RAF handlers: layout, paint, needs_render = False, draw.
PaintDraw ==
  /\ InNative
  /\ Head(Top.code) = "paintdraw"
  /\ needs_render' = FALSE
  /\ TaskRunner_run(tasks, SetTop(Rest), FALSE)
  /\ UNCHANGED <<js, nctx, discarded, RAF_LISTENERS, timers, xhrs, nid, dom_writer>>
  /\ UNCHANGED nonTabVars

\* __runRAFHandlers in the tab's current context: take the list, reset it, call each.
RunRAFHandlers ==
  /\ InNative
  /\ Head(Top.code) = "rafs"
  /\ LET hs == IF js = 0 THEN <<>> ELSE RAF_LISTENERS[js] IN
       /\ RAF_LISTENERS' = IF js = 0 THEN RAF_LISTENERS
                           ELSE [RAF_LISTENERS EXCEPT ![js] = <<>>]
       /\ stack' = IF hs = <<>> THEN SetTop(Rest)
                   ELSE Append(SetTop(Rest),
                               Frame("raf", "-", 0, js, 0, [i \in 1..Len(hs) |-> "js"], hs))
  /\ UNCHANGED <<tasks, js, nctx, discarded, needs_render, timers, xhrs, nid, dom_writer>>
  /\ UNCHANGED nonTabVars

\* A frame with nothing left returns to its caller.
Return ==
  /\ stack # <<>>
  /\ Top.code = <<>>
  /\ stack' = Pop
  /\ UNCHANGED <<tasks, js, nctx, discarded, needs_render, RAF_LISTENERS, timers,
                 xhrs, nid, dom_writer>>
  /\ UNCHANGED nonTabVars

\* ---------------------------------------------------------------- script steps
InJs == stack # <<>> /\ Top.code # <<>> /\ Head(Top.code) = "js"

Did == [Top EXCEPT !.ops = @ + 1]

\* setTimeout(cb, ms): JSContext.setTimeout starts a threading.Timer.
JsSetTimeout ==
  /\ InJs
  /\ Used < MaxIds
  /\ [ctx |-> Top.ctx, by |-> Unit(Top)] \notin timers
  /\ timers' = timers \cup {[ctx |-> Top.ctx, by |-> Unit(Top)]}
  /\ UNCHANGED <<stack, tasks, js, nctx, discarded, needs_render, RAF_LISTENERS, xhrs, nid,
                 dom_writer>>
  /\ UNCHANGED nonTabVars

\* xhr.open(m, url, true); xhr.send(): XMLHttpRequest_send starts a thread.
JsXhrSendAsync ==
  /\ InJs
  /\ Used < MaxIds
  /\ [ctx |-> Top.ctx, by |-> Unit(Top)] \notin xhrs
  /\ xhrs' = xhrs \cup {[ctx |-> Top.ctx, by |-> Unit(Top)]}
  /\ UNCHANGED <<stack, tasks, js, nctx, discarded, needs_render, RAF_LISTENERS, timers, nid,
                 dom_writer>>
  /\ UNCHANGED nonTabVars

\* requestAnimationFrame(fn): push fn on RAF_LISTENERS of the running context;
\* JSContext.requestAnimationFrame schedules Task(self.tab.render) at once.
JsRequestAnimationFrame ==
  /\ InJs
  /\ Used < MaxIds
  /\ nid' = nid + 1
  /\ RAF_LISTENERS' = [RAF_LISTENERS EXCEPT
                         ![Top.ctx] = Append(@, [id |-> nid + 1, by |-> Unit(Top)])]
  /\ tasks' = schedule_task(tasks, NewTask(nid + 1, "render", Top.ctx, Unit(Top)))
  /\ UNCHANGED <<stack, js, nctx, discarded, needs_render, timers, xhrs, dom_writer>>
  /\ UNCHANGED nonTabVars

\* node.style = s: JSContext.style_set -> Tab.set_needs_render.
JsStyleSet ==
  /\ InJs
  /\ Top.ops < MaxOps
  /\ needs_render' = TRUE
  /\ stack' = SetTop(Did)
  /\ UNCHANGED <<tasks, js, nctx, discarded, RAF_LISTENERS, timers, xhrs, nid, dom_writer>>
  /\ UNCHANGED nonTabVars

\* document.querySelectorAll(sel)[0].setAttribute(k, v): the handle is looked up
\* in Tab.nodes, the node is mutated, then process_scripts_and_styles (which
\* enqueues Task(self.js.run, body) when the mutation added a <script src>)
\* and apply_styles_and_render.
JsSetAttribute(addScript) ==
  /\ InJs
  /\ Top.ops < MaxOps
  /\ dom_writer' = Top.ctx
  /\ IF addScript
       THEN /\ Used < MaxIds
            /\ nid' = nid + 1
            /\ tasks' = schedule_task(tasks, NewTask(nid + 1, "script", js, Unit(Top)))
       ELSE UNCHANGED <<nid, tasks>>
  /\ stack' = SetTop([Did EXCEPT !.code = apply_styles_and_render(needs_render) \o @])
  /\ UNCHANGED <<js, nctx, discarded, needs_render, RAF_LISTENERS, timers, xhrs>>
  /\ UNCHANGED nonTabVars

\* The script or callback returns; a RAF frame moves on to its next handler.
JsReturn ==
  /\ InJs
  /\ stack' = SetTop([Top EXCEPT !.code = Tail(@),
                                 !.cbs = IF @ = <<>> THEN @ ELSE Tail(@),
                                 !.ops = 0])
  /\ UNCHANGED <<tasks, js, nctx, discarded, needs_render, RAF_LISTENERS, timers,
                 xhrs, nid, dom_writer>>
  /\ UNCHANGED nonTabVars

\* ---------------------------------------------------------------- helper threads
\* The threading.Timer fires: run_callback schedules Task(dispatch_settimeout, handle).
TimerFire(t) ==
  /\ t \in timers
  /\ nid' = nid + 1
  /\ timers' = timers \ {t}
  /\ tasks' = schedule_task(tasks, NewTask(nid + 1, "timer", t.ctx, t.by))
  /\ UNCHANGED <<stack, js, nctx, discarded, needs_render, RAF_LISTENERS, xhrs,
                 dom_writer>>
  /\ UNCHANGED nonTabVars

\* The XHR thread's run_load ends: with a response that passes the origin check
\* it schedules Task(dispatch_xhr_onload, body, handle); otherwise it raises.
XhrDone(x, ok) ==
  /\ x \in xhrs
  /\ xhrs' = xhrs \ {x}
  /\ IF ok
       THEN /\ nid' = nid + 1
            /\ tasks' = schedule_task(tasks, NewTask(nid + 1, "xhr", x.ctx, x.by))
       ELSE UNCHANGED <<nid, tasks>>
  /\ UNCHANGED <<stack, js, nctx, discarded, needs_render, RAF_LISTENERS, timers,
                 dom_writer>>
  /\ UNCHANGED nonTabVars

TabNext ==
  \/ \E n \in 0..MaxScripts : Load(n)
  \/ MainloopTick
  \/ Draw
  \/ PaintDraw
  \/ RunRAFHandlers
  \/ Return
  \/ JsSetTimeout
  \/ JsXhrSendAsync
  \/ JsRequestAnimationFrame
  \/ JsStyleSet
  \/ \E a \in BOOLEAN : JsSetAttribute(a)
  \/ JsReturn
  \/ \E t \in timers : TimerFire(t)
  \/ \E x \in xhrs, ok \in BOOLEAN : XhrDone(x, ok)

Next == TabNext

Spec == Init /\ [][Next]_vars

\* ================================================================ claims on Spec
TaskFrames == {i \in 1..Len(stack) : stack[i].kind = "task"}

\* Script of frame f has not returned yet.
HasJs(f) == \E k \in 1..Len(f.code) : f.code[k] = "js"

\* Frames that run a setTimeout callback, an XHR onload or a RAF handler.
IsCallback(f) ==
  \/ f.kind = "task" /\ f.tk \in {"timer", "xhr"} /\ f.ran
  \/ f.kind = "raf" /\ f.cbs # <<>>

\* Who registered the callback the frame is running.
RegisteredBy(f) == IF f.kind = "raf" THEN Head(f.cbs).by ELSE f.by

\* C1: once a load has succeeded every earlier script context is marked
\* discarded, and a timer or XHR-onload task of a discarded context that is
\* dequeued does not invoke its script callback.
C1_StaleCallbacksDropped ==
  /\ \A c \in 1..nctx : c # js => c \in discarded
  /\ \A i \in TaskFrames :
       stack[i].tk \in {"timer", "xhr"} /\ stack[i].ran
         => stack[i].ctx \notin discarded /\ stack[i].ctx = js

\* C1 witness: a timer or XHR task of a discarded context was dequeued and dropped.
C1_Witness ==
  \E i \in TaskFrames :
    /\ stack[i].tk \in {"timer", "xhr"}
    /\ stack[i].ctx \in discarded
    /\ ~stack[i].ran

\* C2 (as claimed): every task of a discarded context is a no-op when dequeued:
\* it runs no script, has no native work to do on the document, and the
\* document is never mutated through a discarded context.
C2_DiscardedTasksAreNoOps ==
  /\ \A i \in TaskFrames :
       stack[i].ctx \in discarded => ~stack[i].ran /\ stack[i].code = <<>>
  /\ dom_writer \notin discarded

\* C3 (as claimed): a task runs to completion before another task of the same
\* runner is dequeued: at most one task is executing at any time.
C3_TasksRunToCompletion == Cardinality(TaskFrames) <= 1

\* C4 (as claimed): no callback starts while the script that registered it is
\* still on the stack, and tasks start in the order they were enqueued (ids are
\* handed out at enqueue: every task not yet started is younger than every
\* started one, and the queue is in id order).
C4_CallbacksAfterUnwind ==
  /\ \A i, j \in 1..Len(stack) :
       i < j /\ HasJs(stack[i]) /\ IsCallback(stack[j])
         => RegisteredBy(stack[j]) # Unit(stack[i])
  /\ \A i, j \in 1..Len(tasks) : i < j => tasks[i].id < tasks[j].id
  /\ \A i \in 1..Len(tasks) :
       \A s \in 1..nid :
         (\A k \in 1..Len(tasks) : tasks[k].id # s) => s < tasks[i].id

\* The frame task a registration enqueued is still queued, or is the task a
\* frame of the stack is running.
FrameTaskPending(cb) ==
  \/ \E k \in 1..Len(tasks) : tasks[k].kind = "render" /\ tasks[k].id = cb.id
  \/ \E k \in 1..Len(stack) :
       stack[k].kind = "task" /\ stack[k].tk = "render" /\ stack[k].id = cb.id

\* C23 (as claimed): a callback registered with requestAnimationFrame in a
\* context that is not discarded is invoked when the frame task its
\* registration enqueued is run: once that task has run, the callback is no
\* longer waiting in RAF_LISTENERS.
C23_FrameTaskInvokesCallback ==
  \A c \in Ctxs : \A i \in 1..Len(RAF_LISTENERS[c]) :
    c \notin discarded => FrameTaskPending(RAF_LISTENERS[c][i])

\* ================================================================ SpecRunner
\* TaskRunner at the granularity of its condition lock. Helper threads (a
\* threading.Timer's run_callback, an async XHR's run_load) each call
\* schedule_task once; the UI thread calls run from the event loop and from
\* Browser.draw, which a running task can reach again (a nested call).
UIThread == NHelpers + 1

MaxCalls == 4      \* calls of TaskRunner.run in one behaviour
MaxDepth == 2      \* nesting of TaskRunner.run calls (through Browser.draw)

Calls == Len(executed) + Len(ui)

UiTop == ui[Len(ui)]

SetUiTop(f) == [ui EXCEPT ![Len(ui)] = f]

\* schedule_task: `with self.condition:` acquires the lock.
H_Acquire(h) ==
  /\ hpc[h] = "start"
  /\ lock = 0
  /\ lock' = h
  /\ hpc' = [hpc EXCEPT ![h] = "locked"]
  /\ UNCHANGED <<tasks, ui, appended, executed, nonRunnerVars>>

\* schedule_task: self.tasks.append(task); notify_all().
H_Append(h) ==
  /\ hpc[h] = "locked"
  /\ tasks' = schedule_task(tasks, NewTask(h, "timer", 1, 0))
  /\ appended' = Append(appended, h)
  /\ hpc' = [hpc EXCEPT ![h] = "appended"]
  /\ UNCHANGED <<lock, ui, executed, nonRunnerVars>>

\* schedule_task: leaving the with block releases the lock.
H_Release(h) ==
  /\ hpc[h] = "appended"
  /\ lock' = 0
  /\ hpc' = [hpc EXCEPT ![h] = "done"]
  /\ UNCHANGED <<tasks, ui, appended, executed, nonRunnerVars>>

\* The UI thread enters TaskRunner.run: from the event loop when idle, or from
\* Browser.draw while a task is running.
UI_Call ==
  /\ IF ui = <<>> THEN TRUE ELSE UiTop.pc = "running"
  /\ Len(ui) < MaxDepth
  /\ Calls < MaxCalls
  /\ ui' = Append(ui, [pc |-> "start", task |-> 0, npop |-> 0])
  /\ UNCHANGED <<lock, hpc, tasks, appended, executed, nonRunnerVars>>

\* run: `with self.condition:`.
UI_Acquire ==
  /\ ui # <<>>
  /\ UiTop.pc = "start"
  /\ lock = 0
  /\ lock' = UIThread
  /\ ui' = SetUiTop([UiTop EXCEPT !.pc = "locked"])
  /\ UNCHANGED <<hpc, tasks, appended, executed, nonRunnerVars>>

\* run: if self.tasks: task = self.tasks.pop(0).
UI_Pop ==
  /\ ui # <<>>
  /\ UiTop.pc = "locked"
  /\ IF tasks = <<>>
       THEN /\ ui' = SetUiTop([UiTop EXCEPT !.pc = "popped"])
            /\ UNCHANGED tasks
       ELSE /\ ui' = SetUiTop([UiTop EXCEPT !.pc = "popped",
                                            !.task = TaskRunner_pop(tasks).task.id,
                                            !.npop = @ + 1])
            /\ tasks' = TaskRunner_pop(tasks).rest
  /\ UNCHANGED <<lock, hpc, appended, executed, nonRunnerVars>>

\* run: leaving the with block releases the lock.
UI_Release ==
  /\ ui # <<>>
  /\ UiTop.pc = "popped"
  /\ lock' = 0
  /\ ui' = SetUiTop([UiTop EXCEPT !.pc = IF UiTop.task = 0 THEN "return" ELSE "run"])
  /\ UNCHANGED <<hpc, tasks, appended, executed, nonRunnerVars>>

\* run: if task: task.run(), outside the lock.
UI_TaskRun ==
  /\ ui # <<>>
  /\ UiTop.pc = "run"
  /\ executed' = Append(executed, UiTop.task)
  /\ ui' = SetUiTop([UiTop EXCEPT !.pc = "running"])
  /\ UNCHANGED <<lock, hpc, tasks, appended, nonRunnerVars>>

\* run returns: the task has finished, or there was none.
UI_Return ==
  /\ ui # <<>>
  /\ UiTop.pc \in {"running", "return"}
  /\ ui' = SubSeq(ui, 1, Len(ui) - 1)
  /\ UNCHANGED <<lock, hpc, tasks, appended, executed, nonRunnerVars>>

RunnerNext ==
  \/ \E h \in Helpers : H_Acquire(h)
  \/ \E h \in Helpers : H_Append(h)
  \/ \E h \in Helpers : H_Release(h)
  \/ UI_Call
  \/ UI_Acquire
  \/ UI_Pop
  \/ UI_Release
  \/ UI_TaskRun
  \/ UI_Return

SpecRunner == Init /\ [][RunnerNext]_vars

\* Ids the UI thread has popped and not yet run.
InHand == IF ui # <<>> /\ UiTop.pc \in {"popped", "run"} /\ UiTop.task # 0
            THEN <<UiTop.task>> ELSE <<>>

QueuedIds == [i \in 1..Len(tasks) |-> tasks[i].id]

\* C5: for any interleaving of schedule_task calls from helper threads with run
\* calls on the UI thread, the tasks run so far, the one in hand and the queue
\* are together exactly the tasks appended, in the order they were appended
\* (none lost, none run twice, FIFO), each run call pops at most one task, and
\* only the lock's holder is inside a critical section.
C5_ExactlyOnceFifo ==
  /\ executed \o InHand \o QueuedIds = appended
  /\ \A i \in 1..Len(ui) : ui[i].npop <= 1
  /\ \A i, j \in 1..Len(appended) : i # j => appended[i] # appended[j]
  /\ \A h \in Helpers : hpc[h] \in {"locked", "appended"} => lock = h
  /\ \A i \in 1..Len(ui) : ui[i].pc \in {"locked", "popped"} => lock = UIThread

\* C5 witness: a helper is waiting for the lock the UI thread holds inside a
\* nested run call, after tasks have been run and with tasks still queued.
C5_Witness ==
  /\ Len(ui) = 2
  /\ lock = UIThread
  /\ \E h \in Helpers : hpc[h] = "start"
  /\ Len(executed) >= 1
  /\ Len(tasks) >= 1

(***************************************************************************)
(* SpecCookie: the cookie jar under requests, document.cookie reads and    *)
(* writes, and the passing of time.  A request may come from any caller    *)
(* (Tab.load, XMLHttpRequest_send, a script or stylesheet fetch), so its   *)
(* method and referrer are free inputs.                                    *)
(***************************************************************************)
MaxNow == 2        \* seconds that pass in one behaviour

\* time.time() moves on
Tick ==
  /\ now < MaxNow
  /\ now' = now + 1
  /\ UNCHANGED <<COOKIE_JAR, obs, marked, past>>
  /\ UNCHANGED nonCookieVars

\* URL.request(referrer, payload) answered by a response with these Set-Cookie lines
Request(u, method, ref, lines) ==
  LET referrer == IF ref = NoURL THEN <<>> ELSE URL_str(ref)
      r == URL_request(COOKIE_JAR, u, referrer, method, SetCookieHeader(lines), now)
  IN /\ COOKIE_JAR' = r.jars
     /\ obs' = [NoObs EXCEPT !.op = "request", !.url = u, !.method = method,
                             !.referrer = ref, !.t = now, !.pre = COOKIE_JAR,
                             !.cookies = r.cookies, !.built = r.built,
                             !.past = PastOf(URL_origin(u))]
     /\ marked' = MarkedAfter(Unmark(marked, URL_origin(u), r.removed), URL_origin(u), lines)
     /\ past' = PastAfter({x \in past : x[1] # URL_origin(u)}, URL_origin(u), lines, now)
     /\ UNCHANGED now
     /\ UNCHANGED nonCookieVars

\* a script of the document u reads document.cookie
GetCookie(u) ==
  LET r == get_cookie(COOKIE_JAR, URL_origin(u), now)
  IN /\ COOKIE_JAR' = r.jars
     /\ obs' = [NoObs EXCEPT !.op = "get_cookie", !.url = u, !.t = now,
                             !.pre = COOKIE_JAR, !.out = r.out]
     /\ marked' = Unmark(marked, URL_origin(u), r.removed)
     /\ UNCHANGED past
     /\ UNCHANGED now
     /\ UNCHANGED nonCookieVars

\* a script of the document u assigns to document.cookie
SetCookie(u, c) ==
  LET r == set_cookie(COOKIE_JAR, URL_origin(u), CookieStr(c.name, c.value, c.attrs))
  IN /\ COOKIE_JAR' = r.jars
     /\ obs' = [NoObs EXCEPT !.op = "set_cookie", !.url = u, !.t = now,
                             !.pre = COOKIE_JAR, !.httponly = CarriesHttpOnly(c),
                             !.raised = r.raised]
     /\ past' = past \ {<<URL_origin(u), c.name>>}
     /\ UNCHANGED <<marked, now>>
     /\ UNCHANGED nonCookieVars

CookieNext ==
  \/ Tick
  \/ \E u \in URLs : \E i \in RequestInputs(u) : Request(u, i.method, i.ref, i.lines)
  \/ \E u \in URLs : GetCookie(u)
  \/ \E u \in URLs : \E c \in ScriptCookiesOf(u) : SetCookie(u, c)

SpecCookie == Init /\ [][CookieNext]_vars

(***************************************************************************)
(* SpecNav: one tab's history, the referrer its loads send and the         *)
(* requests they make.                                                     *)
(***************************************************************************)
MaxHist == 2       \* entries of Tab.history

\* "Determine referrer header per referrer policy on previous page";
\* hi is the Python index, so history[hi - 1] is h[hi]
load_referrer(h, hi, u, rp) ==
  IF hi > 0 /\ hi - 1 < Len(h)
    THEN LET prev_url == h[hi].url
         IN IF rp = "no-referrer" THEN <<>>
            ELSE IF rp = "same-origin"
              THEN (IF URL_origin(prev_url) = URL_origin(u) THEN URL_str(prev_url) ELSE <<>>)
            ELSE URL_str(prev_url)
    ELSE <<>>

\* The responses: a failed connection, or a document with a Referrer-Policy
\* header (or none) and Set-Cookie lines
NoResponse == [ok |-> FALSE, policy |-> "", lines |-> <<>>]

Responses(u) ==
  {NoResponse} \cup
  [ok : {TRUE}, policy : {"", "no-referrer", "Same-Origin"},
   lines : IF u = SiteA THEN {<<>>, <<ServerCookie("sid", <<AttrLax>>)>>} ELSE {<<>>}]

\* Tab.load(url, payload) with history h and index hi already set by the caller:
\* the request, the cookies and the navigation state
Tab_load_request(u, method, resp, by_form, h, hi) ==
  LET referrer == load_referrer(h, hi, u, referrer_policy)
      r == URL_request(COOKIE_JAR, u, referrer, method, SetCookieHeader(resp.lines), now)
  IN /\ history' = h
     /\ history_index' = hi
     /\ IF resp.ok
          THEN /\ COOKIE_JAR' = r.jars
               /\ obs' = [NoObs EXCEPT !.op = "request", !.url = u, !.method = method,
                                       !.referrer = IF referrer = <<>> THEN NoURL
                                                    ELSE URL_init(referrer),
                                       !.form = by_form, !.doc = url, !.policy = referrer_policy,
                                       !.t = now,
                                       !.pre = COOKIE_JAR, !.cookies = r.cookies,
                                       !.built = r.built, !.past = PastOf(URL_origin(u))]
               /\ marked' = MarkedAfter(Unmark(marked, URL_origin(u), r.removed),
                                        URL_origin(u), resp.lines)
               /\ past' = PastAfter({x \in past : x[1] # URL_origin(u)}, URL_origin(u),
                                    resp.lines, now)
               /\ url' = u
               /\ referrer_policy' = IF resp.policy = "" THEN "" ELSE casefold_word(resp.policy)
          ELSE UNCHANGED <<COOKIE_JAR, obs, marked, past, url, referrer_policy>>

\* Tab.load(url, payload) where the document loaded has no widgets
Tab_load(u, method, resp, by_form, h, hi) ==
  /\ Tab_load_request(u, method, resp, by_form, h, hi)
  /\ UNCHANGED nonNavVars

\* Tab.navigate's history update without "trim forward history"
navigate_history_untrimmed(u, method, body) ==
  Append(history, [url |-> u, method |-> method, body |-> body])

\* Tab.navigate's history update
navigate_history(u, method, body) ==
  SubSeq(history, 1, history_index + 1) \o <<[url |-> u, method |-> method, body |-> body]>>

\* Tab.navigate's payload: body if method == "POST" else None
navigate_payload(method, body) == IF method = "POST" THEN body ELSE NoBody

\* the payload of a load that restores a history entry, were the entry replayed
restore_payload_replayed(entry) == navigate_payload(entry.method, entry.body)

\* the payload of a load that restores a history entry: payload=None
restore_payload(entry) == NoBody

\* URL.request: method = "POST" if payload is not None else "GET"
payload_method(payload) == IF payload.none THEN "GET" ELSE "POST"

\* the body submit_form builds of a form with one named input
FormBodies == {Body(<<"q", "=", "1">>)}

\* what an operation on the history was given or restored, how many entries lay
\* after history_index when it began, the load it made and whether the request
\* of that load succeeded
NavObs(op, u, method, body, loaded, ok, payload) ==
  [op |-> op, u |-> u, method |-> method, body |-> body,
   cut |-> Len(history) - (history_index + 1), loaded |-> loaded, ok |-> ok,
   payload |-> payload]

\* a history operation that returns without a load
NoLoad ==
  UNCHANGED <<history, history_index, url, referrer_policy, COOKIE_JAR, obs, marked, past,
              nonNavVars>>

\* Tab.navigate(url) from the address bar or a new tab
Navigate(u, resp) ==
  /\ history_index + 2 <= MaxHist
  /\ navobs' = NavObs("navigate", u, "GET", NoBody, TRUE, resp.ok, navigate_payload("GET", NoBody))
  /\ Tab_load(u, payload_method(navigate_payload("GET", NoBody)), resp, FALSE,
              navigate_history(u, "GET", NoBody), history_index + 1)

\* Tab.submit_form of a form of the document shown, whose action resolves to u
SubmitForm(u, body, resp) ==
  /\ url # NoURL
  /\ history_index + 2 <= MaxHist
  /\ navobs' = NavObs("navigate", u, "POST", body, TRUE, resp.ok, navigate_payload("POST", body))
  /\ Tab_load(u, payload_method(navigate_payload("POST", body)), resp, TRUE,
              navigate_history(u, "POST", body), history_index + 1)

\* Tab.click on an <a href> of the document shown that resolves to dest
ClickLink(dest, resp) ==
  /\ url # NoURL
  /\ navobs' = NavObs("click", dest, "GET", NoBody, TRUE, resp.ok, NoBody)
  /\ Tab_load(dest, "GET", resp, FALSE, history, history_index)

\* Tab.go_back
GoBack(resp) ==
  IF history_index > 0
    THEN LET entry == history[history_index]
         IN /\ navobs' = NavObs("go_back", entry.url, entry.method, entry.body, TRUE, resp.ok,
                                restore_payload(entry))
            /\ resp \in Responses(entry.url)
            /\ Tab_load(entry.url, payload_method(restore_payload(entry)), resp, FALSE,
                        history, history_index - 1)
    ELSE /\ resp = NoResponse
         /\ navobs' = NavObs("go_back", NoURL, "", NoBody, FALSE, FALSE, NoBody)
         /\ NoLoad

\* Tab.go_forward
GoForward(resp) ==
  IF history_index + 1 < Len(history)
    THEN LET entry == history[history_index + 2]
         IN /\ navobs' = NavObs("go_forward", entry.url, entry.method, entry.body, TRUE, resp.ok,
                                restore_payload(entry))
            /\ resp \in Responses(entry.url)
            /\ Tab_load(entry.url, payload_method(restore_payload(entry)), resp, FALSE,
                        history, history_index + 1)
    ELSE /\ resp = NoResponse
         /\ navobs' = NavObs("go_forward", NoURL, "", NoBody, FALSE, FALSE, NoBody)
         /\ NoLoad

\* Tab.reload
Reload(resp) ==
  IF 0 <= history_index /\ history_index < Len(history)
    THEN LET entry == history[history_index + 1]
         IN /\ navobs' = NavObs("reload", entry.url, entry.method, entry.body, TRUE, resp.ok,
                                restore_payload(entry))
            /\ resp \in Responses(entry.url)
            /\ Tab_load(entry.url, payload_method(restore_payload(entry)), resp, FALSE,
                        history, history_index)
    ELSE /\ resp = NoResponse
         /\ navobs' = NavObs("reload", NoURL, "", NoBody, FALSE, FALSE, NoBody)
         /\ NoLoad

AllResponses == UNION {Responses(u) : u \in URLs}

NavNext ==
  \/ \E u \in URLs : \E resp \in Responses(u) : Navigate(u, resp)
  \/ \E u \in URLs, body \in FormBodies : \E resp \in Responses(u) : SubmitForm(u, body, resp)
  \/ \E u \in URLs : \E resp \in Responses(u) : ClickLink(u, resp)
  \/ \E resp \in AllResponses : GoBack(resp)
  \/ \E resp \in AllResponses : GoForward(resp)
  \/ \E resp \in AllResponses : Reload(resp)

SpecNav == Init /\ [][NavNext]_vars

(***************************************************************************)
(* SpecHist: the same operations on the tab's history, with servers that   *)
(* answer with a plain document or not at all.                             *)
(***************************************************************************)
PlainResponses == {NoResponse, [ok |-> TRUE, policy |-> "", lines |-> <<>>]}

HistNext ==
  \/ \E u \in URLs, resp \in PlainResponses : Navigate(u, resp)
  \/ \E u \in URLs, body \in FormBodies, resp \in PlainResponses : SubmitForm(u, body, resp)
  \/ \E u \in URLs, resp \in PlainResponses : ClickLink(u, resp)
  \/ \E resp \in PlainResponses : GoBack(resp)
  \/ \E resp \in PlainResponses : GoForward(resp)
  \/ \E resp \in PlainResponses : Reload(resp)

SpecHist == Init /\ [][HistNext]_vars

\* ---------------------------------------------------------------- claims on SpecCookie
\* scheme, host and port of a URL
OriginOf(u) == <<u.scheme, u.host, u.port>>

\* the time a stored cookie's Expires names, NoTs when it names none
ExpiresOf(c) ==
  LET exp == DictGet(c.v.params, <<"expires">>, StrVal(<<>>))
  IN IF exp.t = "num" THEN exp.n
     ELSE IF float(exp.s) # NoTs THEN float(exp.s)
     ELSE parsedate_to_datetime(exp.s)

NotExpired(c, t) == ExpiresOf(c) = NoTs \/ t <= ExpiresOf(c)

IsLax(c) == casefold(format_value(DictGet(c.v.params, <<"samesite">>, StrVal(<<>>)))) = <<"lax">>

IsHttpOnly(c) == DictHas(c.v.params, <<"httponly">>)

\* the Cookie header of the last request has the entry name=value of c
Sent(c) == \E j \in 1..Len(obs.cookies) : obs.cookies[j] = c.k \o <<"=">> \o c.v.value

\* the jar of the last operation's origin, before the operation
PreJar == obs.pre[URL_origin(obs.url)]

CrossSite == obs.referrer # NoURL /\ OriginOf(obs.referrer) # OriginOf(obs.url)

Contains(s, w) == \E i \in 1..Len(s) : s[i] = w

\* C6: for every request to origin O, a non-expired cookie of jar[O] is left
\* out of the Cookie header exactly when it is SameSite=Lax, the method is POST
\* and the referrer is present with another origin; every other non-expired
\* cookie is sent as name=value, and nothing else is sent.
C6_LaxSkippedOnlyOnCrossSitePost ==
  obs.op = "request" =>
    /\ \A i \in 1..Len(PreJar) :
         NotExpired(PreJar[i], obs.t) =>
           (Sent(PreJar[i]) <=> ~(IsLax(PreJar[i]) /\ obs.method = "POST" /\ CrossSite))
    /\ \A j \in 1..Len(obs.cookies) :
         \E i \in 1..Len(PreJar) : obs.cookies[j] = PreJar[i].k \o <<"=">> \o PreJar[i].v.value

\* A cross-site POST that left a Lax cookie out and sent another cookie.
C6_Witness ==
  /\ obs.op = "request" /\ obs.method = "POST" /\ CrossSite
  /\ \E i \in 1..Len(PreJar) : IsLax(PreJar[i]) /\ NotExpired(PreJar[i], obs.t) /\ ~Sent(PreJar[i])
  /\ \E i \in 1..Len(PreJar) : ~IsLax(PreJar[i]) /\ Sent(PreJar[i])

\* C7: when the document shown comes from origin B and a form in it is
\* submitted by POST to another origin A, the request carries none of A's
\* SameSite=Lax cookies, however the document came to be loaded.
C7_CrossSiteFormPostOmitsLax ==
  (obs.op = "request" /\ obs.form /\ obs.method = "POST"
     /\ OriginOf(obs.doc) # OriginOf(obs.url)) =>
    \A i \in 1..Len(PreJar) : IsLax(PreJar[i]) => ~Sent(PreJar[i])

\* the jar of one origin without its HttpOnly cookies
WithoutHttpOnly(jar) == SelectSeq(jar, LAMBDA c : ~IsHttpOnly(c))

\* C8: a document.cookie read never contains the name or the value of a
\* cookie that a response marked HttpOnly, and it reads the same from the jar
\* with its HttpOnly cookies taken out.
C8_HttpOnlyNeverRead ==
  obs.op = "get_cookie" =>
    /\ \A m \in marked :
         m[1] = URL_origin(obs.url) =>
           ~Contains(obs.out, m[2]) /\ ~Contains(obs.out, ServerCookie(m[2], <<>>).value)
    /\ obs.out = get_cookie([obs.pre EXCEPT ![URL_origin(obs.url)] = WithoutHttpOnly(@)],
                            URL_origin(obs.url), obs.t).out

\* C9: no document.cookie write changes or replaces a cookie that is stored
\* with the HttpOnly attribute.
C9_HttpOnlyNotWritable ==
  obs.op = "set_cookie" =>
    \A i \in 1..Len(PreJar) :
      IsHttpOnly(PreJar[i]) =>
        \E j \in 1..Len(COOKIE_JAR[URL_origin(obs.url)]) :
          COOKIE_JAR[URL_origin(obs.url)][j] = PreJar[i]

\* C10: a document.cookie write whose string carries HttpOnly raises no error
\* and leaves the whole jar as it was.
C10_HttpOnlyWriteIgnored ==
  (obs.op = "set_cookie" /\ obs.httponly) => (~obs.raised /\ COOKIE_JAR = obs.pre)

\* An HttpOnly write was made to a jar that holds cookies.
C10_Witness ==
  /\ obs.op = "set_cookie" /\ obs.httponly
  /\ COOKIE_JAR[URL_origin(obs.url)] # <<>>

\* the Cookie header of the last request has an entry for this name
SentName(n) == \E j \in 1..Len(obs.cookies) : obs.cookies[j][1] = n

\* C11: after a response sets a cookie with an Expires in the past, as an
\* RFC 1123 date or as epoch seconds, the next request to that origin sends no
\* entry for it and the jar it has built no longer holds it.
C11_ExpiredAtSetIsDroppedByNextRequest ==
  obs.op = "request" =>
    \A n \in obs.past : ~SentName(n) /\ ~DictHas(obs.built, <<n>>)

\* the Expires time of a stored cookie has passed at time t
Expired(c, t) == ExpiresOf(c) # NoTs /\ t > ExpiresOf(c)

\* C12: after a document.cookie read, and after a request has built its Cookie
\* header, the jar of that origin holds no cookie whose Expires time has passed.
C12_NoExpiredCookieAfterReadOrSend ==
  /\ obs.op = "request" =>
       \A i \in 1..Len(obs.built) : ~Expired(obs.built[i], obs.t)
  /\ obs.op = "get_cookie" =>
       \A i \in 1..Len(COOKIE_JAR[URL_origin(obs.url)]) :
         ~Expired(COOKIE_JAR[URL_origin(obs.url)][i], obs.t)

\* C37: cookies are isolated by origin: the Cookie header of a request to
\* origin O holds only cookies that were stored under O, and a request to O
\* (its expired cookies removed, the Set-Cookie of its response stored), a
\* document.cookie read and a document.cookie write made while the tab shows a
\* page of O leave the cookies of every other origin as they were.
C37_CookiesIsolatedByOrigin ==
  obs.op \in {"request", "get_cookie", "set_cookie"} =>
    /\ \A o \in Origins \ {URL_origin(obs.url)} : COOKIE_JAR[o] = obs.pre[o]
    /\ \A j \in 1..Len(obs.cookies) :
         \E i \in 1..Len(PreJar) : obs.cookies[j] = PreJar[i].k \o <<"=">> \o PreJar[i].v.value

\* a request to SiteB carried a cookie of SiteB and its response or its
\* expired cookies changed the jar of SiteB, while SiteA has other cookies
C37_Witness ==
  /\ obs.op = "request"
  /\ obs.url = SiteB
  /\ obs.cookies # <<>>
  /\ COOKIE_JAR[URL_origin(SiteA)] # <<>>
  /\ COOKIE_JAR[URL_origin(SiteA)] # obs.pre[URL_origin(SiteB)]
  /\ \E i \in 1..Len(COOKIE_JAR[URL_origin(SiteA)]) : ~Sent(COOKIE_JAR[URL_origin(SiteA)][i])

(***************************************************************************)
(* SpecJar: two threads inside URL.request for the same origin.  One step  *)
(* is one iteration of the send loop, the removal of the expired cookies,  *)
(* or the storing of the response's cookies; no lock is taken anywhere.    *)
(***************************************************************************)
JarKey == URL_origin(SiteA)

\* the Set-Cookie lines of the responses
JarLines ==
  { <<>>, <<ServerCookie("k", <<AttrExpiresEpoch(1)>>)>>, <<ServerCookie("k", <<>>)>>,
    <<ServerCookie("sid", <<>>)>> }

\* jar = COOKIE_JAR.get(jar_key, {}) and the start of "for ... in jar.items()"
J_Begin(th, lines) ==
  /\ jthreads[th].pc = "idle"
  /\ ~jthreads[th].raised
  /\ jthreads' = [jthreads EXCEPT ![th] =
                    [JarIdle EXCEPT !.pc = "iter", !.i = 1, !.size = Len(COOKIE_JAR[JarKey]),
                                    !.lines = lines, !.lost = jthreads[th].lost]]
  /\ UNCHANGED <<cookieVars, tabVars, runnerVars, navVars, restVars>>

\* one iteration of the send loop; a dict that changed size since the loop
\* began makes the iterator raise RuntimeError
J_Iter(th) ==
  LET me == jthreads[th]
      jar == COOKIE_JAR[JarKey]
      r == request_cookies(<<jar[me.i]>>, now, "GET", FALSE)
  IN /\ me.pc = "iter"
     /\ jthreads' = [jthreads EXCEPT ![th] =
                       IF Len(jar) # me.size THEN [me EXCEPT !.pc = "idle", !.raised = TRUE]
                       ELSE IF me.i > Len(jar) THEN [me EXCEPT !.pc = "pop"]
                       ELSE [me EXCEPT !.i = @ + 1, !.cookies = @ \o r.cookies,
                                       !.remove_names = @ \o r.remove_names]]
     /\ UNCHANGED <<cookieVars, tabVars, runnerVars, navVars, restVars>>

\* "Remove expired cookies"; a cookie stored anew since it was found expired
\* is removed all the same
J_Pop(th) ==
  LET me == jthreads[th]
      jar == COOKIE_JAR[JarKey]
      fresh == \E i \in 1..Len(jar) :
                 /\ \E j \in 1..Len(me.remove_names) : me.remove_names[j] = jar[i].k
                 /\ request_cookies(<<jar[i]>>, now, "GET", FALSE).remove_names = <<>>
  IN /\ me.pc = "pop"
     /\ COOKIE_JAR' = [COOKIE_JAR EXCEPT ![JarKey] = DictPopAll(@, me.remove_names)]
     /\ jthreads' = [jthreads EXCEPT ![th] = [me EXCEPT !.pc = "net", !.lost = @ \/ fresh]]
     /\ UNCHANGED <<now, obs, marked, past, tabVars, runnerVars, navVars, restVars>>

\* the response has arrived: "Store cookies from Set-Cookie header"
J_Store(th) ==
  LET me == jthreads[th]
  IN /\ me.pc = "net"
     /\ COOKIE_JAR' = [COOKIE_JAR EXCEPT ![JarKey] = store_set_cookie(@, SetCookieHeader(me.lines))]
     /\ marked' = MarkedAfter(marked, JarKey, me.lines)
     /\ past' = PastAfter(past, JarKey, me.lines, now)
     /\ jthreads' = [jthreads EXCEPT ![th] = [me EXCEPT !.pc = "idle"]]
     /\ UNCHANGED <<now, obs, tabVars, runnerVars, navVars, restVars>>

JarNext ==
  \/ Tick
  \/ \E th \in JarThreads, lines \in JarLines : J_Begin(th, lines)
  \/ \E th \in JarThreads : J_Iter(th)
  \/ \E th \in JarThreads : J_Pop(th)
  \/ \E th \in JarThreads : J_Store(th)

SpecJar == Init /\ [][JarNext]_vars

\* the thread is reading or changing the jar
InJar(th) == jthreads[th].pc \in {"iter", "pop"}

\* C13: operations on jar[O] exclude each other: no two threads are inside
\* their loops over the jar at once, no loop sees the jar change under it and
\* no cookie stored by one thread is removed by another's stale removal list.
C13_JarMutualExclusion ==
  /\ \A t1, t2 \in JarThreads : t1 # t2 => ~(InJar(t1) /\ InJar(t2))
  /\ \A th \in JarThreads : ~jthreads[th].raised /\ ~jthreads[th].lost

(***************************************************************************)
(* SpecCsp: the requests a document's scripts, style sheets and            *)
(* XMLHttpRequests make under the tab's Content-Security-Policy, and the   *)
(* same-origin check of XMLHttpRequest responses.  An asynchronous         *)
(* XMLHttpRequest runs run_load on a thread of its own, which reads        *)
(* Tab.url when it gets there.                                             *)
(***************************************************************************)
MaxNodes == 3      \* script and link elements of a document

nonCspVars == <<tabVars, runnerVars, cookieVars, jarVars, history, history_index, navobs,
               eventVars, lateVars>>

\* scan without the record of what the last process_scripts_and_styles did
quiet(sc) ==
  [sc EXCEPT !.op = "", !.fetched = <<>>, !.tasks = <<>>, !.dropped = <<>>, !.ok = TRUE]

\* the JSContext of the document shown is marked discarded: its threads and
\* its onload tasks call back into a discarded context
discard(xs) == {[x EXCEPT !.discarded = TRUE] : x \in xs}

\* Tab.load from the response on: the response carries the header csp and the
\* document nodes; sub_ok tells whether the subresource requests succeed
LoadPage(u, csp, nodes, sub_ok) ==
  LET ao == csp_allowed_origins(csp)
      sc == process_scripts_and_styles(nodes, u, ao, sub_ok, {}, <<>>)
  IN /\ url' = u
     /\ allowed_origins' = ao
     /\ referrer_policy' = ""
     /\ xthreads' = discard(xthreads)
     /\ onloads' = discard(onloads)
     /\ scan' = [sc EXCEPT !.op = "load"]
     /\ issued' = IssuedBy(sc.fetched, ao)
     /\ xobs' = NoXobs
     /\ cert_error' = FALSE
     /\ UNCHANGED nonCspVars

\* the fields of the tab a load assigns
TabFields ==
  [url |-> url, allowed_origins |-> allowed_origins, referrer_policy |-> referrer_policy,
   scan |-> scan, xthreads |-> xthreads, onloads |-> onloads]

\* a load that assigns the URL and resets the policies before its request
load_raised_after_reset(tab, u) ==
  [tab EXCEPT !.url = u, !.allowed_origins = NoPolicy, !.referrer_policy = ""]

\* Tab.load when url.request raises: both except branches return before
\* self.url = url, so the fields stay as they are
load_raised(tab, u) == tab

\* Tab.load(u) whose request fails: ssl.SSLError (a certificate error, which
\* sets cert_error) or any other exception (a network error)
LoadFails(u, ssl) ==
  LET tab == load_raised(TabFields, u)
  IN /\ cert_error' = ssl
     /\ url' = tab.url
     /\ allowed_origins' = tab.allowed_origins
     /\ referrer_policy' = tab.referrer_policy
     /\ scan' = quiet(tab.scan)
     /\ xthreads' = tab.xthreads
     /\ onloads' = tab.onloads
     /\ issued' = {}
     /\ xobs' = [NoXobs EXCEPT !.op = "load", !.target = u, !.raised = TRUE]
     /\ UNCHANGED nonCspVars

\* Tab.process_scripts_and_styles called again after a script changed the
\* document: the nodes are those of the last scan, or one more script
Rescan(nodes, sub_ok) ==
  LET sc == process_scripts_and_styles(nodes, url, allowed_origins, sub_ok,
                                       scan.loaded_scripts, scan.loaded_styles)
  IN /\ url # NoURL
     /\ Len(nodes) <= MaxNodes
     /\ scan' = [sc EXCEPT !.attempts = scan.attempts \o @, !.runs = scan.runs \o @]
     /\ issued' = IssuedBy(sc.fetched, allowed_origins)
     /\ xobs' = NoXobs
     /\ UNCHANGED <<nonCspVars, cert_error, url, referrer_policy, allowed_origins, xthreads, onloads>>

\* run_load, "Enforce same-origin policy unless CORS allows": TRUE when no
\* exception is raised
cors_allows(req_origin, resp_origin, acao) ==
  LET allow == str_strip(acao)
  IN ~(req_origin # resp_origin /\ (allow = <<>> \/ (allow # <<"*">> /\ allow # req_origin)))

\* JSContext.XMLHttpRequest_send called by a script of the document shown; a
\* synchronous request runs run_load before it returns, with the response's
\* Access-Control-Allow-Origin header acao
XMLHttpRequest_send(target, isasync, acao, ok, handle) ==
  LET full_url == URL_resolve(url, target)
      o == [NoXobs EXCEPT !.op = "send", !.target = URL_origin(full_url),
                          !.sender = URL_origin(url), !.isasync = isasync]
  IN /\ url # NoURL
     /\ IF ~allowed_request(allowed_origins, full_url)
          THEN /\ xobs' = [o EXCEPT !.raised = TRUE]
               /\ issued' = {}
               /\ UNCHANGED xthreads
          ELSE IF ~isasync
            THEN /\ xobs' = [o EXCEPT !.requested = ok, !.acao = IF ok THEN acao ELSE <<>>,
                                      !.raised = ~ok \/ ~cors_allows(URL_origin(url),
                                                                     URL_origin(full_url), acao),
                                      !.body = ok /\ cors_allows(URL_origin(url),
                                                                 URL_origin(full_url), acao)]
                 /\ issued' = IF ~ok THEN {} ELSE
                               {[kind |-> "xhr", to |-> URL_origin(full_url),
                                checked |-> OriginAllowed(allowed_origins,
                                                          URL_origin(full_url)),
                                sent_under |-> allowed_origins]}
                 /\ UNCHANGED xthreads
          ELSE /\ \A x \in xthreads \cup onloads : x.handle # handle
               /\ xthreads' = xthreads \cup
                    {[handle |-> handle, target |-> full_url, sender |-> URL_origin(url),
                      checked |-> OriginAllowed(allowed_origins, URL_origin(full_url)),
                      discarded |-> FALSE,
                      phase |-> "start", acao |-> <<>>]}
               /\ xobs' = [o EXCEPT !.started = TRUE]
               /\ issued' = {}
     /\ scan' = quiet(scan)
     /\ UNCHANGED <<nonCspVars, cert_error, url, referrer_policy, allowed_origins, onloads>>

\* run_load on its thread, up to full_url.request: the request is sent and
\* the response arrives, or the connection fails and run_load raises
XhrRequest(th, acao, ok) ==
  /\ th \in xthreads
  /\ th.phase = "start"
  /\ xthreads' = (xthreads \ {th}) \cup
                   (IF ok THEN {[th EXCEPT !.phase = "sent", !.acao = acao]} ELSE {})
  /\ issued' = IF ok THEN {[kind |-> "xhr", to |-> URL_origin(th.target),
                             checked |-> th.checked, sent_under |-> allowed_origins]}
                ELSE {}
  /\ xobs' = [NoXobs EXCEPT !.op = "request", !.target = URL_origin(th.target),
                            !.sender = th.sender, !.isasync = TRUE, !.requested = ok,
                            !.raised = ~ok]
  /\ scan' = quiet(scan)
  /\ UNCHANGED <<nonCspVars, cert_error, url, referrer_policy, allowed_origins, onloads>>

\* run_load on its thread, after the response: the same-origin check against
\* Tab.url as it is now, then the onload task is scheduled
XhrCheck(th) ==
  LET allows == cors_allows(URL_origin(url), URL_origin(th.target), th.acao)
  IN /\ th \in xthreads
     /\ th.phase = "sent"
     /\ xthreads' = xthreads \ {th}
     /\ onloads' = IF allows
                     THEN onloads \cup {[handle |-> th.handle, target |-> th.target, sender |-> th.sender,
                                   acao |-> th.acao, discarded |-> th.discarded]}
                     ELSE onloads
     /\ xobs' = [NoXobs EXCEPT !.op = "check", !.target = URL_origin(th.target),
                               !.sender = th.sender, !.isasync = TRUE, !.acao = th.acao,
                               !.requested = TRUE, !.raised = ~allows, !.onload = allows]
     /\ issued' = {}
     /\ scan' = quiet(scan)
     /\ UNCHANGED <<nonCspVars, cert_error, url, referrer_policy, allowed_origins>>

\* JSContext.dispatch_xhr_onload: __runXHROnload is evaluated unless the context
\* is discarded
onload_reaches_script(is_discarded) == ~is_discarded

\* the task runner runs a dispatch_xhr_onload task
XhrOnload(t) ==
  /\ t \in onloads
  /\ onloads' = onloads \ {t}
  /\ xobs' = [NoXobs EXCEPT !.op = "onload", !.target = URL_origin(t.target),
                            !.sender = t.sender, !.isasync = TRUE, !.acao = t.acao,
                            !.requested = TRUE, !.onload = TRUE,
                            !.body = onload_reaches_script(t.discarded)]
  /\ issued' = {}
  /\ scan' = quiet(scan)
  /\ UNCHANGED <<nonCspVars, cert_error, url, referrer_policy, allowed_origins, xthreads>>

\* a script changed the document: nothing new, or one more script element
DomChange == \E nodes \in {scan.nodes, Append(scan.nodes, Script(CdnJs))} : Rescan(nodes, TRUE)

RunLoadRequest == \E th \in xthreads, ok \in BOOLEAN : XhrRequest(th, <<>>, ok)

RunLoadCheck == \E th \in xthreads : XhrCheck(th)

RunOnload == \E t \in onloads : XhrOnload(t)

XhrTargets == {URL_str(p) : p \in Pages}

CspNext ==
  \/ \E u \in Pages, csp \in Policies, nodes \in Docs, sub_ok \in BOOLEAN :
       LoadPage(u, csp, nodes, sub_ok)
  \/ DomChange
  \/ \E target \in XhrTargets, isasync \in BOOLEAN, ok \in BOOLEAN, handle \in Handles :
       XMLHttpRequest_send(target, isasync, <<>>, ok, handle)
  \/ RunLoadRequest
  \/ RunLoadCheck
  \/ RunOnload

SpecCsp == Init /\ [][CspNext]_vars

(***************************************************************************)
(* SpecXhr: XMLHttpRequests of documents without subresources, to servers  *)
(* that answer with any Access-Control-Allow-Origin header.                *)
(***************************************************************************)
LoadBare == \E u \in Pages, csp \in Policies : LoadPage(u, csp, <<>>, TRUE)

RunLoadResponse == \E th \in xthreads, acao \in AcaoValues, ok \in BOOLEAN : XhrRequest(th, acao, ok)

XhrNext ==
  \/ LoadBare
  \/ \E target \in XhrTargets, isasync \in BOOLEAN, acao \in AcaoValues, ok \in BOOLEAN,
        handle \in Handles :
       XMLHttpRequest_send(target, isasync, acao, ok, handle)
  \/ RunLoadResponse
  \/ RunLoadCheck
  \/ RunOnload

SpecXhr == Init /\ [][XhrNext]_vars

(***************************************************************************)
(* SpecEvent: scripts add listeners to the elements of a document, and an  *)
(* event is dispatched on one of them; dispatchEvent calls itself on the   *)
(* parent, so the calls in progress form a stack.                          *)
(***************************************************************************)
MaxListeners == 3  \* listeners added in one behaviour

nonEventVars == <<tabVars, runnerVars, cookieVars, navVars, jarVars, cspVars, lateVars>>

RECURSIVE ListenerCount(_)
\* the listeners of the elements 1..h
ListenerCount(h) == IF h = 0 THEN 0 ELSE Len(LISTENERS[h]) + ListenerCount(h - 1)

\* Node.prototype.addEventListener
AddEventListener(h, l) ==
  /\ frames = <<>>
  /\ ListenerCount(TreeDepth) < MaxListeners
  /\ LISTENERS' = [LISTENERS EXCEPT ![h] = Append(@, l)]
  /\ ran' = <<>>
  /\ dispatched' = NoDispatch
  /\ evt' = NewEvent
  /\ UNCHANGED <<frames, nonEventVars>>

\* EVENT_DISPATCH_JS: new Node(handle).dispatchEvent(new Event(type))
DispatchEvent(h) ==
  /\ frames = <<>>
  /\ evt' = NewEvent
  /\ frames' = <<[handle |-> h, i |-> 1, pc |-> "loop", do_default |-> TRUE]>>
  /\ ran' = <<>>
  /\ dispatched' = [target |-> h, done |-> FALSE, ret |-> FALSE]
  /\ UNCHANGED <<LISTENERS, nonEventVars>>

\* list[i].call(this, evt)
CallListener ==
  /\ frames # <<>>
  /\ LET f == frames[Len(frames)]
     IN /\ f.pc = "loop"
        /\ f.i <= Len(LISTENERS[f.handle])
        /\ evt' = call_listener(LISTENERS[f.handle][f.i], evt)
        /\ ran' = Append(ran, <<f.handle, f.i>>)
        /\ frames' = [frames EXCEPT ![Len(frames)].i = f.i + 1]
  /\ UNCHANGED <<LISTENERS, dispatched, nonEventVars>>

\* "if (do_bubble)" with every event bubbling until a listener prevents its default
should_bubble_unless_prevented(do_bubble, do_default) == do_bubble /\ do_default

\* "if (do_bubble)"
should_bubble(do_bubble, do_default) == do_bubble

\* "var do_default = evt.do_default" were the event's flag not read
read_do_default_unset(e) == TRUE

\* "var do_default = evt.do_default"
read_do_default(e) == e.do_default

\* after the loop: do_default and do_bubble are read, and dispatchEvent calls
\* itself on the parent or goes on to return
Bubble ==
  /\ frames # <<>>
  /\ LET f == frames[Len(frames)]
         parentHandle == getParent(f.handle)
     IN /\ f.pc = "loop"
        /\ f.i > Len(LISTENERS[f.handle])
        /\ frames' =
             IF should_bubble(evt.do_bubble, evt.do_default) /\ parentHandle # -1
               THEN Append([frames EXCEPT ![Len(frames)] =
                              [f EXCEPT !.pc = "call", !.do_default = read_do_default(evt)]],
                           [handle |-> parentHandle, i |-> 1, pc |-> "loop",
                            do_default |-> TRUE])
               ELSE [frames EXCEPT ![Len(frames)] =
                       [f EXCEPT !.pc = "return", !.do_default = read_do_default(evt)]]
  /\ UNCHANGED <<LISTENERS, evt, ran, dispatched, nonEventVars>>

\* "do_default = parent.dispatchEvent(evt) && do_default"
merge_default(parent_result, do_default) == parent_result /\ do_default

\* "return do_default": to the dispatchEvent that called, or to the caller of
\* the outermost one
ReturnDefault ==
  /\ frames # <<>>
  /\ LET f == frames[Len(frames)]
         n == Len(frames)
     IN /\ f.pc = "return"
        /\ IF n = 1
             THEN /\ frames' = <<>>
                  /\ dispatched' = [dispatched EXCEPT !.done = TRUE, !.ret = f.do_default]
             ELSE /\ frames' = [SubSeq(frames, 1, n - 1) EXCEPT ![n - 1] =
                                  [@ EXCEPT !.pc = "return",
                                            !.do_default = merge_default(f.do_default,
                                                                         @)]]
                  /\ UNCHANGED dispatched
  /\ UNCHANGED <<LISTENERS, evt, ran, nonEventVars>>

EventNext ==
  \/ \E h \in Elements, l \in Listeners : AddEventListener(h, l)
  \/ \E h \in Elements : DispatchEvent(h)
  \/ CallListener
  \/ Bubble
  \/ ReturnDefault

SpecEvent == Init /\ [][EventNext]_vars

\* ---------------------------------------------------------------- claims on SpecNav
\* C29: a load that leaves a document sends no Referer when the policy received
\* with that document is no-referrer; under same-origin it sends one only to a
\* target of the referring URL's origin; under any other policy, or none, it
\* sends the full URL of the document being left.
C29_RefererFollowsPolicyOfDocumentLeft ==
  (obs.op = "request" /\ obs.doc # NoURL) =>
    /\ obs.policy = "no-referrer" => obs.referrer = NoURL
    /\ obs.policy = "same-origin" =>
         (obs.referrer # NoURL =>
            /\ obs.referrer = obs.doc
            /\ URL_origin(obs.url) = URL_origin(obs.doc))
    /\ obs.policy \notin {"no-referrer", "same-origin"} => obs.referrer = obs.doc

\* ---------------------------------------------------------------- claims on SpecHist
\* C17: after navigate(url, method, body) every entry that was after
\* history_index is gone, the new entry {url, method, body} is the last one,
\* history_index is len(history) - 1 and the entries at or before the old index
\* are as they were.
C17_NavigateTrimsAndAppends ==
  [][navobs'.op = "navigate" =>
       /\ Len(history') = history_index + 2
       /\ history'[Len(history')] =
            [url |-> navobs'.u, method |-> navobs'.method, body |-> navobs'.body]
       /\ history_index' = Len(history') - 1
       /\ \A i \in 1..(history_index + 1) : history'[i] = history[i]]_vars

\* a navigate that found an entry after history_index and removed it
C17_Witness ==
  /\ navobs.op = "navigate"
  /\ navobs.cut > 0
  /\ history_index = Len(history) - 1
  /\ history[Len(history)].url = navobs.u

\* the variables a load changes are as they were
NothingDone ==
  UNCHANGED <<history, history_index, url, referrer_policy, COOKIE_JAR, obs, marked, past>>

\* C18: go_back, go_forward and reload send their request without a payload,
\* as a GET, also when the entry restored was recorded as a POST; none of them
\* changes the history; go_back at index 0 and go_forward at the last index do
\* nothing.
C18_RestoreIsGetAndKeepsHistory ==
  [][navobs'.op \in {"go_back", "go_forward", "reload"} =>
       /\ history' = history
       /\ navobs'.loaded => navobs'.payload = NoBody
       /\ obs' # obs => obs'.method = "GET"
       /\ (navobs'.op = "go_back" /\ history_index <= 0) => ~navobs'.loaded /\ NothingDone
       /\ (navobs'.op = "go_forward" /\ history_index + 1 >= Len(history))
            => ~navobs'.loaded /\ NothingDone
       /\ (navobs'.op = "go_back" /\ history_index > 0)
            => navobs'.loaded /\ history_index' = history_index - 1
       /\ (navobs'.op = "go_forward" /\ history_index + 1 < Len(history))
            => navobs'.loaded /\ history_index' = history_index + 1]_vars

\* a go_forward that restored an entry recorded as a POST, and its request was
\* sent as a GET
C18_Witness ==
  /\ navobs.op = "go_forward"
  /\ navobs.loaded
  /\ navobs.method = "POST"
  /\ obs.op = "request" /\ obs.url = navobs.u /\ obs.method = "GET"
  /\ history[history_index + 1].method = "POST"

\* C33 (as claimed): whenever a load completes successfully, whatever triggered
\* it, 0 <= history_index < len(history) and the URL of the tab is the URL of
\* history[history_index].
C33_UrlIsCurrentHistoryEntry ==
  (navobs.loaded /\ navobs.ok) =>
    /\ 0 <= history_index
    /\ history_index < Len(history)
    /\ url = history[history_index + 1].url

\* ---------------------------------------------------------------- claims on SpecCsp
\* the last scan sent a request for the element with attribute a
Fetched(a) ==
  \E i \in 1..Len(scan.fetched) : scan.fetched[i].to = URL_resolve(url, a)

\* the last scan left the element with attribute a alone
Dropped(a) == \E i \in 1..Len(scan.dropped) : scan.dropped[i] = a

\* the XMLHttpRequest_send just made was to an origin outside the policy
BlockedSend == xobs.op = "send" /\ ~OriginAllowed(allowed_origins, xobs.target)

\* what C14 says of the elements and XMLHttpRequests that are blocked: no request
BlockedSendNothing ==
  /\ \A i \in 1..Len(scan.dropped) : ~Fetched(scan.dropped[i])
  /\ \A i \in 1..Len(scan.nodes) :
       ~OriginAllowed(allowed_origins, URL_origin(URL_resolve(url, scan.nodes[i].attr)))
         => ~Fetched(scan.nodes[i].attr)
  /\ BlockedSend => xobs.raised /\ ~xobs.requested /\ ~xobs.started /\ issued = {}

\* C14 as stated: while allowed_origins is set, every script, style sheet and
\* XMLHttpRequest request sent goes to an origin that is in allowed_origins at
\* that moment; blocked elements are dropped and a blocked XMLHttpRequest raises,
\* both without a request.
C14_NoRequestOutsidePolicy ==
  /\ \A r \in issued : r.sent_under.set => r.to \in r.sent_under.items
  /\ BlockedSendNothing

\* C14 amended: every script, style sheet and XMLHttpRequest request sent goes
\* to an origin that was in allowed_origins (or met no policy) when
\* allowed_request was asked, which for an asynchronous XMLHttpRequest is when
\* send was called; blocked elements are dropped and a blocked XMLHttpRequest
\* raises, both without a request.
C14_NoRequestOutsidePolicyChecked ==
  /\ \A r \in issued : r.checked
  /\ BlockedSendNothing

\* a scan under a policy that sent a request for one element and dropped another
C14_Witness ==
  /\ allowed_origins.set
  /\ scan.dropped # <<>>
  /\ \E r \in issued : r.kind = "script" /\ r.to \in allowed_origins.items

\* the policy of "Content-Security-Policy: default-src https://self.example/"
SelfExamplePolicy == <<"default-src", " ", "https", "://", "self.example", "/">>

\* C15: a page served with Content-Security-Policy: default-src
\* https://self.example/ that holds <script src="https://self.example/ok.js">
\* has that script fetched and its run enqueued as a task, and no script of
\* another host fetched.
C15_SelfScriptFetchedOtherDropped ==
  (/\ scan.op = "load"
   /\ scan.ok
   /\ allowed_origins = csp_allowed_origins(SelfExamplePolicy)
   /\ \E i \in 1..Len(scan.nodes) : scan.nodes[i] = Script(OkJs))
  => /\ Fetched(OkJs)
     /\ \E i \in 1..Len(scan.tasks) : scan.tasks[i] = OkJs
     /\ ~Fetched(CdnJs)

\* ---------------------------------------------------------------- claims on SpecXhr
\* the response's Access-Control-Allow-Origin is "*" or the origin of the
\* document whose script sent the XMLHttpRequest
AcaoAccepts == xobs.acao = <<"*">> \/ xobs.acao = xobs.sender

\* C16: for an XMLHttpRequest to another origin than the tab's, the body reaches
\* the script (returned by a synchronous send, or passed to onload) only if
\* Access-Control-Allow-Origin is "*" or the tab's origin; otherwise the
\* XMLHttpRequest fails and no onload task is enqueued.
C16_CrossOriginBodyOnlyWithAcao ==
  (xobs.op \in {"send", "check", "onload"} /\ xobs.requested /\ xobs.target # xobs.sender)
  => /\ (xobs.body \/ xobs.onload) => AcaoAccepts
     /\ ~AcaoAccepts => xobs.raised /\ ~xobs.onload

\* ---------------------------------------------------------------- claims on SpecEvent
\* the listener called k-th by the dispatch
Ran(k) == LISTENERS[ran[k][1]][ran[k][2]]

Prevents(l) == l \in {"preventDefault", "both"}

Stops(l) == l \in {"stopPropagation", "both"}

\* C19: dispatchEvent returns true exactly when no listener it called, at the
\* target or at an ancestor the event bubbled to, called preventDefault.
C19_ReturnsTrueIffNoPreventDefault ==
  dispatched.done => (dispatched.ret <=> \A k \in 1..Len(ran) : ~Prevents(Ran(k)))

\* a dispatch that returned false because a listener of an ancestor, and none of
\* the target, called preventDefault
C19_Witness ==
  /\ dispatched.done
  /\ ~dispatched.ret
  /\ \E k \in 1..Len(ran) : ran[k][1] # dispatched.target /\ Prevents(Ran(k))
  /\ \A k \in 1..Len(ran) : ran[k][1] = dispatched.target => ~Prevents(Ran(k))
  /\ \E k \in 1..Len(ran) : ran[k][1] = dispatched.target

\* all the listeners of element h, in the order they were added
LevelOrder(h) == [i \in 1..Len(LISTENERS[h]) |-> <<h, i>>]

RECURSIVE BubbleOrder(_)
\* the listeners of h, then those of its ancestors from the nearest on, up to
\* and including the first element one of whose listeners calls stopPropagation
BubbleOrder(h) ==
  LevelOrder(h) \o
    (IF h = 1 \/ \E i \in 1..Len(LISTENERS[h]) : Stops(LISTENERS[h][i])
       THEN <<>> ELSE BubbleOrder(h - 1))

\* C20: the listeners run target first, then ancestor by ancestor, in the order
\* added at each element; once one calls stopPropagation the other listeners of
\* that element still run and no ancestor's do; preventDefault does not stop
\* the bubbling.
C20_TargetFirstThenAncestors ==
  dispatched.target # 0 =>
    /\ Len(ran) <= Len(BubbleOrder(dispatched.target))
    /\ ran = SubSeq(BubbleOrder(dispatched.target), 1, Len(ran))
    /\ dispatched.done => ran = BubbleOrder(dispatched.target)

\* a dispatch whose target's first listener called stopPropagation: the
\* target's second listener ran, the parent's listener did not
C20_Witness ==
  /\ dispatched.done
  /\ dispatched.target > 1
  /\ Len(LISTENERS[dispatched.target]) >= 2
  /\ Stops(LISTENERS[dispatched.target][1])
  /\ LISTENERS[dispatched.target - 1] # <<>>
  /\ ran = LevelOrder(dispatched.target)


(***************************************************************************)
(* SpecParse: HTMLParser.parse reads a document one character at a time;   *)
(* the document is any string of BodyChars of at most MaxBody characters.  *)
(***************************************************************************)
nonParseVars == <<tabVars, runnerVars, cookieVars, navVars, jarVars, cspVars, eventVars,
                 domVars, inputVars, lastVars>>

\* for c in self.body: one iteration
ParseChar(c) ==
  /\ parsed = 0
  /\ Len(parser.body) < MaxBody
  /\ parser' = [parse_char(parser, c) EXCEPT !.body = Append(@, c)]
  /\ UNCHANGED <<parsed, nonParseVars>>

\* the end of the body: the pending text is added, finish returns the root
ParseEnd ==
  /\ parsed = 0
  /\ parser' = parse_end(parser)
  /\ parsed' = parse_end_root(parser)
  /\ UNCHANGED nonParseVars

ParseNext ==
  \/ \E c \in BodyChars : ParseChar(c)
  \/ ParseEnd

SpecParse == Init /\ [][ParseNext]_vars

\* ---------------------------------------------------------------- claims on SpecParse
\* how many times x occurs in the list s
Occurrences(s, x) == Cardinality({i \in 1..Len(s) : s[i] = x})

\* C25: in the tree parse returns, the root has no parent and every other node
\* occurs exactly once in the children of the node its parent field names.
C25_ParsedTreeIsWellFormed ==
  parsed # 0 =>
    /\ parser.nodes[parsed].parent = 0
    /\ \A n \in 1..Len(parser.nodes) :
         n # parsed =>
           /\ parser.nodes[n].parent # 0
           /\ Occurrences(parser.nodes[parser.nodes[n].parent].children, n) = 1

\* C25 witness: parse returned a tree with a text inside a <p> the document
\* left open, below the implicit html and body.
C25_Witness ==
  /\ parsed # 0
  /\ \E n \in 1..Len(parser.nodes) :
       /\ parser.nodes[n].kind = "Text"
       /\ parser.nodes[n].parent # 0
       /\ parser.nodes[parser.nodes[n].parent].tag = "p"
       /\ parser.nodes[parser.nodes[n].parent].parent # parsed

Hello_p_World == <<"Hello", "<", "p", ">", "World">>

\* C28 (as claimed): "Hello<p>World" parses to an html element whose children
\* are an empty head and a body, the body holding the text "Hello" and then a
\* p element that holds the text "World".
C28_HelloPWorldHasEmptyHead ==
  (parsed # 0 /\ parser.body = Hello_p_World) =>
    LET N == parser.nodes
        html == N[parsed]
    IN /\ html.tag = "html"
       /\ Len(html.children) = 2
       /\ N[html.children[1]].tag = "head"
       /\ N[html.children[1]].children = <<>>
       /\ N[html.children[2]].tag = "body"
       /\ LET body == N[html.children[2]]
          IN /\ Len(body.children) = 2
             /\ N[body.children[1]].kind = "Text"
             /\ N[body.children[1]].text = <<"Hello">>
             /\ N[body.children[2]].tag = "p"
             /\ LET p == N[body.children[2]]
                IN /\ Len(p.children) = 1
                   /\ N[p.children[1]].kind = "Text"
                   /\ N[p.children[1]].text = <<"World">>


(***************************************************************************)
(* SpecDom: a document is loaded and its script calls the bridge           *)
(* (JSContext's exported functions) with handles it holds or with a handle *)
(* the table does not have.                                                *)
(***************************************************************************)
nonDomVars == <<tasks, stack, js, nctx, discarded, RAF_LISTENERS, timers, xhrs, nid,
                dom_writer, runnerVars, cookieVars, navVars, jarVars, cspVars, eventVars,
                parseVars, inputVars, lastVars>>

\* "<p>": html -> body -> p
DomPages == {<<"<", "p", ">">>}

Selectors == {"p"}

CreateTags == {"div"}

DomAttrs == {<<"id">>}

AttrValues == {<<"x">>}

InnerStrings == {<<"Hello">>}

StyleStrings == {<<"color", ":", "red">>}

\* the handles a script passes: those of the table, and one it does not have
HandleArgs == 0..Len(handle_to_node)

\* the handle is not a key of the table
Missing(h) == h \notin 0..(Len(handle_to_node) - 1)

\* elements made by createElement so far
Created == Cardinality({n \in 1..Len(dom) : dom[n].tag \in CreateTags})

\* the state a step of the tab leaves; k counts it as a call that changed the DOM
DomStep(N, H, R, b, k) ==
  /\ dom_ops + k <= MaxDomOps
  /\ dom_ops' = dom_ops + k
  /\ dom' = N
  /\ handle_to_node' = H
  /\ document' = R.document
  /\ display_list' = R.display_list
  /\ needs_render' = R.needs_render
  /\ bridge' = b

\* Tab.load of a document: parse, a new JSContext, process_scripts_and_styles,
\* apply_styles_and_render, update_ids
DomLoad ==
  /\ tab_nodes = 0
  /\ \E body \in DomPages :
       \E P \in {HTMLParser_parse(body)} :
         \E A \in {after_mutation(P.nodes, <<>>, Layout, P.root, TRUE)} :
           /\ tab_nodes' = P.root
           /\ DomStep(P.nodes, A.handles, A.layout, NoBridge, 0)
  /\ UNCHANGED nonDomVars

\* JSContext.querySelectorAll with a tag selector
QuerySelectorAll ==
  /\ tab_nodes # 0
  /\ \E sel \in Selectors :
       IF RecursionError(dom, tab_nodes)
         THEN DomStep(dom, handle_to_node, Layout,
                      Bridge("querySelectorAll", 0, <<sel>>, FALSE, FALSE, TRUE, <<>>), 0)
         ELSE LET nodes == SelectSeq(tree_to_list(dom, tab_nodes),
                                     LAMBDA n : isElement(dom, n) /\ dom[n].tag = sel)
                  H == get_handles(handle_to_node, nodes)
              IN DomStep(dom, H, Layout,
                         Bridge("querySelectorAll", 0, <<sel>>, FALSE, TRUE, FALSE,
                                [i \in 1..Len(nodes) |-> get_handle(H, nodes[i])]), 0)
  /\ UNCHANGED <<tab_nodes, nonDomVars>>

\* JSContext.create_element
CreateElement(k) ==
  /\ tab_nodes # 0
  /\ Created < MaxCreated
  /\ \E tag \in CreateTags :
       LET N == Append(dom, Element(tag, <<>>, 0))
           H == get_handle_table(handle_to_node, Len(N))
       IN DomStep(N, H, Layout,
                  Bridge("createElement", Len(N), <<tag>>, FALSE, TRUE, FALSE,
                         get_handle(H, Len(N))), k)
  /\ UNCHANGED <<tab_nodes, nonDomVars>>

\* JSContext.getAttribute
GetAttribute ==
  /\ tab_nodes # 0
  /\ \E h \in HandleArgs, attr \in DomAttrs :
       LET node == handle_to_node_get(handle_to_node, h)
       IN DomStep(dom, handle_to_node, Layout,
                  Bridge("getAttribute", 0, attr, Missing(h), FALSE, FALSE,
                         IF isElement(dom, node)
                           THEN DictGet(dom[node].attributes, attr, <<>>) ELSE <<>>), 0)
  /\ UNCHANGED <<tab_nodes, nonDomVars>>

\* JSContext.set_attribute; del is `value is None`
SetAttribute(k) ==
  /\ tab_nodes # 0
  /\ \E h \in HandleArgs, attr \in DomAttrs, value \in AttrValues, del \in BOOLEAN :
       LET node == handle_to_node_get(handle_to_node, h)
           N == [dom EXCEPT ![node].attributes =
                   IF del THEN DictPop(@, attr) ELSE DictSet(@, attr, value)]
           A == after_mutation(N, handle_to_node, Layout, tab_nodes, attr = <<"id">>)
       IN IF ~isElement(dom, node)
            THEN DomStep(dom, handle_to_node, Layout,
                         Bridge("setAttribute", node, attr, Missing(h), FALSE, FALSE, None), 0)
            ELSE DomStep(N, A.handles, A.layout,
                         Bridge("setAttribute", node, attr, FALSE, TRUE, A.raised, None), k)
  /\ UNCHANGED <<tab_nodes, nonDomVars>>

\* JSContext.style_set: the style attribute, then Tab.set_needs_render
StyleSet(k) ==
  /\ tab_nodes # 0
  /\ \E h \in HandleArgs, s \in StyleStrings :
       LET node == handle_to_node_get(handle_to_node, h)
       IN IF ~isElement(dom, node)
            THEN DomStep(dom, handle_to_node, Layout,
                         Bridge("style_set", node, s, Missing(h), FALSE, FALSE, None), 0)
            ELSE DomStep([dom EXCEPT ![node].attributes = DictSet(@, <<"style">>, s)],
                         handle_to_node, [Layout EXCEPT !.needs_render = TRUE],
                         Bridge("style_set", node, s, FALSE, TRUE, FALSE, None), k)
  /\ UNCHANGED <<tab_nodes, nonDomVars>>

\* the nodes of a parse, renumbered to follow the off nodes the table holds
shifted(nodes, off) ==
  [i \in 1..Len(nodes) |->
     [nodes[i] EXCEPT !.parent = IF @ = 0 THEN 0 ELSE @ + off,
                      !.children = [j \in 1..Len(@) |-> @[j] + off]]]

RECURSIVE set_parents(_, _, _)
\* for c in new_children: c.parent = node
set_parents(N, cs, node) ==
  IF cs = <<>> THEN N ELSE set_parents([N EXCEPT ![Head(cs)].parent = node], Tail(cs), node)

\* HTMLParser("<body>" + s + "</body>").parse()
innerHTML_parse(s) == HTMLParser_parse(<<"<", "body", ">">> \o s \o <<"<", "/body", ">">>)

\* JSContext.innerHTML_set on an element: the node table after
\* node.children = []; c.parent = node for the new children; node.children = new_children
innerHTML_replace(N, node, P) ==
  LET off == Len(N)
      new_children == [j \in 1..Len(P.nodes[P.root].children) |->
                         P.nodes[P.root].children[j] + off]
      M == set_parents([(N \o shifted(P.nodes, off)) EXCEPT ![node].children = <<>>],
                       new_children, node)
  IN [M EXCEPT ![node].children = new_children]

innerHTML_set(N, node, s) ==
  The({ innerHTML_replace(N, node, P) : P \in {innerHTML_parse(s)} })

InnerHTMLSet(k) ==
  /\ tab_nodes # 0
  /\ \E h \in HandleArgs, s \in InnerStrings :
       LET node == handle_to_node_get(handle_to_node, h)
       IN IF ~isElement(dom, node)
            THEN DomStep(dom, handle_to_node, Layout,
                         Bridge("innerHTML_set", node, s, Missing(h), FALSE, FALSE, None), 0)
            ELSE \E N \in {innerHTML_set(dom, node, s)} :
                   \E A \in {after_mutation(N, handle_to_node, Layout, tab_nodes, FALSE)} :
                     DomStep(N, IF A.raised THEN handle_to_node
                                ELSE update_ids(N, handle_to_node, tab_nodes),
                             A.layout,
                             Bridge("innerHTML_set", node, s, FALSE, TRUE, A.raised, None), k)
  /\ UNCHANGED <<tab_nodes, nonDomVars>>

\* "/" + tag, on the tags of the alphabet
SlashWord(tag) ==
  CASE tag = "p" -> "/p" [] tag = "b" -> "/b" [] tag = "html" -> "/html"
    [] tag = "head" -> "/head" [] tag = "body" -> "/body" [] tag = "div" -> "/div"
    [] OTHER -> "/"

RECURSIVE attrs_list(_)
\* the attrs list of _serialize: k, or k="v" with the quotes of v escaped
attrs_list(d) ==
  IF d = <<>> THEN <<>>
  ELSE <<IF Head(d).v = <<>> THEN Head(d).k
         ELSE Head(d).k \o <<"=", "\"">>
              \o [i \in 1..Len(Head(d).v) |->
                    IF Head(d).v[i] = "\"" THEN "&quot;" ELSE Head(d).v[i]]
              \o <<"\"">> >> \o attrs_list(Tail(d))

\* f"<{node.tag}{attr_str}>"
open_tag(node) ==
  <<"<", node.tag>>
  \o (IF node.attributes = <<>> THEN <<>>
      ELSE <<" ">> \o str_join(attrs_list(node.attributes), <<" ">>))
  \o <<">">>

RECURSIVE serialize_walk(_, _)
\* the recursion of JSContext._serialize: pending holds the nodes still to
\* write and the end tags to write after them
serialize_walk(N, pending) ==
  IF pending = <<>> THEN <<>>
  ELSE LET it == Head(pending)
       IN IF it.node = 0
            THEN <<"<", SlashWord(it.tag), ">">> \o serialize_walk(N, Tail(pending))
          ELSE IF N[it.node].kind = "Text"
            THEN N[it.node].text \o serialize_walk(N, Tail(pending))
          ELSE IF N[it.node].tag \in SELF_CLOSING_TAGS
            THEN open_tag(N[it.node]) \o serialize_walk(N, Tail(pending))
          ELSE open_tag(N[it.node])
               \o serialize_walk(N,
                    [j \in 1..Len(N[it.node].children) |->
                       [node |-> N[it.node].children[j], tag |-> ""]]
                    \o <<[node |-> 0, tag |-> N[it.node].tag]>> \o Tail(pending))

\* "".join(self._serialize(c) for c in nodes)
serialize(N, nodes) ==
  serialize_walk(N, [j \in 1..Len(nodes) |-> [node |-> nodes[j], tag |-> ""]])

\* JSContext.innerHTML_get
InnerHTMLGet ==
  /\ tab_nodes # 0
  /\ \E h \in HandleArgs :
       LET node == handle_to_node_get(handle_to_node, h)
           raises == node # 0 /\ RecursionError(dom, node)
       IN DomStep(dom, handle_to_node, Layout,
                  Bridge("innerHTML_get", 0, <<>>, Missing(h), FALSE, raises,
                         IF node = 0 \/ raises THEN <<>>
                         ELSE serialize(dom, dom[node].children)), 0)
  /\ UNCHANGED <<tab_nodes, nonDomVars>>

\* JSContext.outerHTML_get
OuterHTMLGet ==
  /\ tab_nodes # 0
  /\ \E h \in HandleArgs :
       LET node == handle_to_node_get(handle_to_node, h)
           raises == node # 0 /\ RecursionError(dom, node)
       IN DomStep(dom, handle_to_node, Layout,
                  Bridge("outerHTML_get", 0, <<>>, Missing(h), FALSE, raises,
                         IF node = 0 \/ raises THEN <<>> ELSE serialize(dom, <<node>>)), 0)
  /\ UNCHANGED <<tab_nodes, nonDomVars>>

\* JSContext.children: the handles of the element children
Children ==
  /\ tab_nodes # 0
  /\ \E h \in HandleArgs :
       LET node == handle_to_node_get(handle_to_node, h)
           cs == IF isElement(dom, node)
                   THEN SelectSeq(dom[node].children, LAMBDA c : isElement(dom, c))
                   ELSE <<>>
           H == get_handles(handle_to_node, cs)
       IN DomStep(dom, H, Layout,
                  Bridge("children", 0, <<>>, Missing(h), FALSE, FALSE,
                         [i \in 1..Len(cs) |-> get_handle(H, cs[i])]), 0)
  /\ UNCHANGED <<tab_nodes, nonDomVars>>

\* JSContext.getParent: the handle of the parent, -1 without one
GetParent ==
  /\ tab_nodes # 0
  /\ \E h \in HandleArgs :
       LET node == handle_to_node_get(handle_to_node, h)
           parent == IF node = 0 THEN 0 ELSE dom[node].parent
           H == IF parent = 0 THEN handle_to_node
                ELSE get_handle_table(handle_to_node, parent)
       IN DomStep(dom, H, Layout,
                  Bridge("getParent", 0, <<>>, Missing(h), FALSE, FALSE,
                         IF parent = 0 THEN -1 ELSE get_handle(H, parent)), 0)
  /\ UNCHANGED <<tab_nodes, nonDomVars>>

\* the end of append_child, insert_before and remove_child, on the table N they
\* left: process_scripts_and_styles, apply_styles_and_render, update_ids
TreeStep(N, b, k) ==
  LET A == after_mutation(N, handle_to_node, Layout, tab_nodes, TRUE)
  IN DomStep(N, A.handles, A.layout, [b EXCEPT !.done = TRUE, !.raised = A.raised], k)

\* JSContext.append_child on an element and a node: the node table after
append_child(N, parent, child) ==
  [detach(N, child) EXCEPT ![child].parent = parent,
                           ![parent].children = Append(@, child)]

AppendChild(k) ==
  /\ tab_nodes # 0
  /\ \E ph \in HandleArgs, ch \in HandleArgs :
       LET parent == handle_to_node_get(handle_to_node, ph)
           child == handle_to_node_get(handle_to_node, ch)
           b == Bridge("appendChild", child, <<>>, Missing(ph) \/ Missing(ch),
                       FALSE, FALSE, None)
       IN IF ~(isElement(dom, parent) /\ child # 0)
            THEN DomStep(dom, handle_to_node, Layout, b, 0)
            ELSE TreeStep(append_child(dom, parent, child), b, k)
  /\ UNCHANGED <<tab_nodes, nonDomVars>>

\* JSContext.insert_before on an element and two nodes: the node table after
insert_before(N, parent, child, ref) ==
  LET M == [detach(N, child) EXCEPT ![child].parent = parent]
      idx == IndexOf(M[parent].children, ref)
  IN [M EXCEPT ![parent].children =
        IF idx = 0 THEN Append(@, child) ELSE list_insert(@, idx, child)]

InsertBefore(k) ==
  /\ tab_nodes # 0
  /\ \E ph \in HandleArgs, ch \in HandleArgs, rh \in HandleArgs :
       LET parent == handle_to_node_get(handle_to_node, ph)
           child == handle_to_node_get(handle_to_node, ch)
           ref == handle_to_node_get(handle_to_node, rh)
           b == Bridge("insertBefore", child, <<>>,
                       Missing(ph) \/ Missing(ch) \/ Missing(rh), FALSE, FALSE, None)
       IN IF ~(isElement(dom, parent) /\ child # 0 /\ ref # 0)
            THEN DomStep(dom, handle_to_node, Layout, b, 0)
            ELSE TreeStep(insert_before(dom, parent, child, ref), b, k)
  /\ UNCHANGED <<tab_nodes, nonDomVars>>

\* JSContext.remove_child of a child the parent holds: the node table after
remove_child(N, parent, child) ==
  [[N EXCEPT ![parent].children = list_remove(@, child)] EXCEPT ![child].parent = 0]

RemoveChild(k) ==
  /\ tab_nodes # 0
  /\ \E ph \in HandleArgs, ch \in HandleArgs :
       LET parent == handle_to_node_get(handle_to_node, ph)
           child == handle_to_node_get(handle_to_node, ch)
           b == Bridge("removeChild", child, <<>>, Missing(ph) \/ Missing(ch),
                       FALSE, FALSE, None)
       IN IF ~(isElement(dom, parent) /\ child # 0)
            THEN DomStep(dom, handle_to_node, Layout, b, 0)
          ELSE IF child \notin Range(dom[parent].children)
            THEN DomStep(dom, handle_to_node, Layout, b, 0)
          ELSE TreeStep(remove_child(dom, parent, child), b, k)
  /\ UNCHANGED <<tab_nodes, nonDomVars>>

\* SpecTree: the calls that move nodes, on the handles querySelectorAll and
\* createElement give; the calls are not counted
TreeNext ==
  \/ DomLoad
  \/ QuerySelectorAll
  \/ CreateElement(0)
  \/ AppendChild(0)
  \/ InsertBefore(0)
  \/ RemoveChild(0)

SpecTree == Init /\ [][TreeNext]_vars

\* SpecDom: every call of the bridge; at most MaxDomOps of them change the DOM
DomNext ==
  \/ DomLoad
  \/ QuerySelectorAll
  \/ GetAttribute
  \/ SetAttribute(1)
  \/ StyleSet(1)
  \/ InnerHTMLSet(1)
  \/ InnerHTMLGet
  \/ OuterHTMLGet
  \/ Children
  \/ GetParent
  \/ AppendChild(1)
  \/ InsertBefore(1)
  \/ RemoveChild(1)

SpecDom == Init /\ [][DomNext]_vars


\* ---------------------------------------------------------------- claims on SpecTree
\* the elements whose children list holds n
Holders(n) == {e \in 1..Len(dom) : n \in Range(dom[e].children)}

\* C26: after any sequence of appendChild, insertBefore and removeChild calls
\* every node is in the children of at most one element, once, and that
\* element is its parent; a node just moved is in the children of its new
\* parent (so not in those of the old one), a node just removed has no parent.
C26_ChildrenOwnedByParent ==
  /\ \A n \in 1..Len(dom) :
       /\ Cardinality(Holders(n)) <= 1
       /\ \A e \in Holders(n) : Occurrences(dom[e].children, n) = 1 /\ dom[n].parent = e
  /\ (bridge.op \in {"appendChild", "insertBefore"} /\ bridge.done) =>
       /\ dom[bridge.node].parent # 0
       /\ Holders(bridge.node) = {dom[bridge.node].parent}
  /\ (bridge.op = "removeChild" /\ bridge.done) => dom[bridge.node].parent = 0

\* C26 witness: appendChild moved the p of the document from body into the
\* element the script created.
C26_Witness ==
  /\ bridge.op = "appendChild"
  /\ bridge.done
  /\ dom[bridge.node].tag = "p"
  /\ dom[bridge.node].parent # 0
  /\ dom[dom[bridge.node].parent].tag \in CreateTags

RECURSIVE ParentChain(_, _, _)
\* the nodes met by following parent links from n, at most k of them
ParentChain(N, n, k) ==
  IF k = 0 \/ N[n].parent = 0 THEN {}
  ELSE {N[n].parent} \cup ParentChain(N, N[n].parent, k - 1)

\* C34 (as claimed): after any sequence of appendChild and insertBefore calls,
\* whatever the child is, no node is its own ancestor (following parent links
\* from any node ends at a node without parent) and the root of the document
\* of the tab has no parent.
C34_NoNodeIsItsOwnAncestor ==
  /\ \A n \in 1..Len(dom) : n \notin ParentChain(dom, n, Len(dom))
  /\ tab_nodes # 0 => dom[tab_nodes].parent = 0

\* C39: within one script context node_to_handle and handle_to_node (here one
\* table: entry h + 1 is the node of handle h) are inverse one-to-one
\* mappings: no node has two handles; a call of the bridge leaves every handle
\* with its node, so no handle changes or is given to another node; new
\* handles come after all earlier ones; the handles a call returns are those
\* of the nodes it was asked about.
C39_HandlesStableAndUnique ==
  [][/\ \A i, j \in 1..Len(handle_to_node') :
          handle_to_node'[i] = handle_to_node'[j] => i = j
     /\ Len(handle_to_node) <= Len(handle_to_node')
     /\ SubSeq(handle_to_node', 1, Len(handle_to_node)) = handle_to_node
     /\ (bridge'.op = "createElement" /\ bridge'.done) =>
          /\ bridge'.ret = Len(handle_to_node)
          /\ handle_to_node_get(handle_to_node', bridge'.ret) = bridge'.node
     /\ (bridge'.op = "querySelectorAll" /\ bridge'.done) =>
          \A i \in 1..Len(bridge'.ret) :
            LET n == handle_to_node_get(handle_to_node', bridge'.ret[i])
            IN /\ n # 0
               /\ dom'[n].tag = bridge'.s[1]
               /\ n \in Range(handle_to_node) =>
                    handle_to_node_get(handle_to_node, bridge'.ret[i]) = n]_vars

\* querySelectorAll returned a handle that was given out before the calls
\* that gave out the newest handles
C39_Witness ==
  /\ bridge.op = "querySelectorAll"
  /\ bridge.done
  /\ \E i \in 1..Len(bridge.ret) : bridge.ret[i] < Len(handle_to_node) - Len(bridge.ret)
  /\ \E n \in 1..Len(dom) : dom[n].tag \in CreateTags /\ n \in Range(handle_to_node)

\* ---------------------------------------------------------------- claims on SpecDom
Mutators == {"setAttribute", "innerHTML_set", "appendChild", "insertBefore", "removeChild"}

\* C22 (as claimed): when a call that changed the DOM through the bridge has
\* returned, the layout tree and the display list are those built from the
\* DOM as it is now.
C22_MutationRebuildsLayout ==
  (bridge.op \in Mutators /\ bridge.done /\ ~bridge.raised) =>
    /\ document = DocumentLayout(dom, tab_nodes)
    /\ display_list = paint_tree(DocumentLayout(dom, tab_nodes))

\* kind, tag and text of the nodes of a list
Shapes(N, ns) ==
  [i \in 1..Len(ns) |-> [kind |-> N[ns[i]].kind, tag |-> N[ns[i]].tag, text |-> N[ns[i]].text]]

\* the nodes the string s parses to: the children of the body that wraps it
ParsedFrom(s) ==
  LET P == innerHTML_parse(s)
      body == P.nodes[P.root].children[1]
  IN Shapes(P.nodes, P.nodes[body].children)

\* C27 (as claimed): after innerHTML is set on an element its children are the
\* nodes parsed from the string, each with the element as parent, and every
\* node of the handle table has no parent or is among its parent's children.
C27_InnerHTMLReplacesChildren ==
  (bridge.op = "innerHTML_set" /\ bridge.done) =>
    /\ Shapes(dom, dom[bridge.node].children) = ParsedFrom(bridge.s)
    /\ \A c \in Range(dom[bridge.node].children) : dom[c].parent = bridge.node
    /\ \A n \in Range(handle_to_node) :
         dom[n].parent = 0 \/ n \in Range(dom[dom[n].parent].children)

\* what a call returns when it has nothing to return: "", [], -1 or None
EmptyResult(op) ==
  CASE op \in {"getAttribute", "innerHTML_get", "outerHTML_get", "children"} -> <<>>
    [] op = "getParent" -> -1
    [] OTHER -> None

\* C30: a bridge call given a handle the handle table does not have raises
\* nothing, returns an empty result, and leaves the DOM, the handle table and
\* the render state (layout tree, display list, needs_render) as they were.
C30_MissingHandleIsNoOp ==
  [][bridge'.missing =>
       /\ ~bridge'.raised
       /\ bridge'.ret = EmptyResult(bridge'.op)
       /\ dom' = dom
       /\ handle_to_node' = handle_to_node
       /\ document' = document
       /\ display_list' = display_list
       /\ needs_render' = needs_render]_vars

\* C30 witness: insertBefore was called on two elements of the document and a
\* reference handle the table does not have.
C30_Witness ==
  /\ bridge.op = "insertBefore"
  /\ bridge.missing
  /\ bridge.node # 0
  /\ Len(handle_to_node) >= 2


(***************************************************************************)
(* SpecLoad: loads that succeed and loads whose request fails, of pages    *)
(* whose scripts have asynchronous XHRs in flight.                         *)
(***************************************************************************)
LoadNext ==
  \/ \E u \in Pages, csp \in Policies, nodes \in Docs, sub_ok \in BOOLEAN :
       LoadPage(u, csp, nodes, sub_ok)
  \/ \E u \in Pages, ssl \in BOOLEAN : LoadFails(u, ssl)
  \/ \E target \in XhrTargets, ok \in BOOLEAN, handle \in Handles :
       XMLHttpRequest_send(target, TRUE, <<>>, ok, handle)

SpecLoad == Init /\ [][LoadNext]_vars

\* ---------------------------------------------------------------- claims on SpecLoad
\* C24: a load whose request fails (network error or certificate failure)
\* leaves the tab's URL, DOM, script context (not discarded), allowed_origins,
\* referrer policy, loaded scripts and loaded style rules as they were.
C24_FailedLoadChangesNothing ==
  [][(xobs'.op = "load" /\ xobs'.raised) =>
       /\ url' = url
       /\ scan'.nodes = scan.nodes
       /\ scan'.loaded_scripts = scan.loaded_scripts
       /\ scan'.loaded_styles = scan.loaded_styles
       /\ allowed_origins' = allowed_origins
       /\ referrer_policy' = referrer_policy
       /\ xthreads' = xthreads
       /\ onloads' = onloads]_vars

\* C24 witness: the load of another page failed on a certificate error while a
\* page with a policy, a fetched script and an XHR in flight was shown.
C24_Witness ==
  /\ xobs.op = "load"
  /\ xobs.raised
  /\ cert_error
  /\ url # NoURL
  /\ xobs.target # url
  /\ allowed_origins # NoPolicy
  /\ scan.loaded_scripts # {}
  /\ \E th \in xthreads : ~th.discarded

(***************************************************************************)
(* SpecInput: two documents, one with a checkbox and a button in a form    *)
(* and a link, one with a text input and a button in a form; the script    *)
(* of a document holds handles and listeners; the user clicks and types.   *)
(***************************************************************************)
MaxValue == 2      \* characters of an input's value

nonInputVars == <<tabVars, runnerVars, now, jarVars, cspVars, eventVars, parseVars, domVars,
                  lastVars>>

Widget(tag, attributes, parent) == [tag |-> tag, attributes |-> attributes, parent |-> parent]

Attr(k, v) == [k |-> k, v |-> v]

\* http://a/: <form action="/"><input type=checkbox name=c><button></button></form>
\*            <a href="http://b:8000/"></a>
PageA ==
  << Widget("form", <<Attr("action", <<"/">>)>>, 0),
     Widget("input", <<Attr("type", <<"checkbox">>), Attr("name", <<"c">>)>>, 1),
     Widget("button", <<>>, 1),
     Widget("a", <<Attr("href", <<"http", "://", "b", ":", "8000", "/">>)>>, 0) >>

\* http://b:8000/: <form action="http://a/"><input name=q value=a><button></button></form>
PageB ==
  << Widget("form", <<Attr("action", <<"http", "://", "a", "/">>)>>, 0),
     Widget("input", <<Attr("name", <<"q">>), Attr("value", <<"a">>)>>, 1),
     Widget("button", <<>>, 1) >>

PageWidgets(u) == IF u = SiteA THEN PageA ELSE PageB

Listener(h, type, l) == [h |-> h, type |-> type, l |-> l]

\* What the script of a document did: the elements it asked a handle for and
\* the listeners it added, in order. A listener is one of Listeners or
\* "throw", a listener that raises.
ScriptsA ==
  { NoScript,
    [handles |-> {2}, listeners |-> <<Listener(2, "click", "preventDefault")>>],
    [handles |-> {4}, listeners |-> <<Listener(4, "click", "preventDefault")>>],
    [handles |-> {1}, listeners |-> <<Listener(1, "submit", "preventDefault")>>] }

ScriptsB ==
  { NoScript,
    [handles |-> {1}, listeners |-> <<Listener(1, "click", "preventDefault")>>],
    [handles |-> {1, 3}, listeners |-> <<Listener(1, "click", "preventDefault")>>],
    [handles |-> {1, 3}, listeners |-> <<Listener(3, "click", "stopPropagation"),
                                         Listener(1, "click", "preventDefault")>>],
    [handles |-> {1}, listeners |-> <<Listener(1, "submit", "preventDefault")>>],
    [handles |-> {2}, listeners |-> <<Listener(2, "keydown", "preventDefault")>>],
    [handles |-> {2}, listeners |-> <<Listener(2, "click", "preventDefault"),
                                      Listener(2, "click", "throw")>>] }

PageScripts(u) == IF u = SiteA THEN ScriptsA ELSE ScriptsB

Chars == {"x", "\n"}

\* (LISTENERS[this.handle] && LISTENERS[this.handle][evt.type]) || []
listeners_of(L, h, type) == SelectSeq(L, LAMBDA r : r.h = h /\ r.type = type)

RECURSIVE run_listeners(_, _)
\* for (i ...) list[i].call(this, evt): a listener that raises ends the loop
run_listeners(list, e) ==
  IF list = <<>> THEN [e |-> e, raised |-> FALSE]
  ELSE IF Head(list).l = "throw" THEN [e |-> e, raised |-> TRUE]
  ELSE run_listeners(Tail(list), call_listener(Head(list).l, e))

RECURSIVE Node_dispatchEvent(_, _, _, _, _)
\* Node.prototype.dispatchEvent on the element h of the document W
Node_dispatchEvent(W, L, type, h, e) ==
  LET r == run_listeners(listeners_of(L, h, type), e)
      do_default == read_do_default(r.e)
      parentHandle == IF W[h].parent = 0 THEN -1 ELSE W[h].parent
      up == Node_dispatchEvent(W, L, type, parentHandle, r.e)
  IN IF r.raised THEN [raised |-> TRUE, ret |-> FALSE]
     ELSE IF should_bubble(r.e.do_bubble, r.e.do_default) /\ parentHandle # -1
       THEN (IF up.raised THEN up
             ELSE [raised |-> FALSE, ret |-> merge_default(up.ret, do_default)])
     ELSE [raised |-> FALSE, ret |-> do_default]

\* JSContext.dispatch_event with "return bool(do_default)"
dispatch_event_unnegated(W, S, type, elt) ==
  IF elt \notin S.handles THEN FALSE
  ELSE LET r == Node_dispatchEvent(W, S.listeners, type, elt, NewEvent)
       IN IF r.raised THEN FALSE ELSE r.ret

\* JSContext.dispatch_event: False for an element without a handle or when
\* evaljs raises, else not do_default
dispatch_event(W, S, type, elt) ==
  IF elt \notin S.handles THEN FALSE
  ELSE LET r == Node_dispatchEvent(W, S.listeners, type, elt, NewEvent)
       IN IF r.raised THEN FALSE ELSE ~r.ret

\* ("checked" in attributes) or attributes.get("_checked_state") == "true"
checked(attributes) ==
  DictHas(attributes, "checked") \/ DictGet(attributes, "_checked_state", <<>>) = <<"true">>

\* attributes.get("type", "text").lower() == "checkbox"
is_checkbox(attributes) == casefold(DictGet(attributes, "type", <<"text">>)) = <<"checkbox">>

\* Tab.click, a checkbox: toggle the internal checked state
toggle(attributes) ==
  IF checked(attributes)
    THEN DictSet(DictPop(attributes, "checked"), "_checked_state", <<"false">>)
    ELSE DictSet(attributes, "_checked_state", <<"true">>)

RECURSIVE closest_form(_, _)
\* while form and not (isinstance(form, Element) and form.tag == "form"): form = form.parent
closest_form(W, form) ==
  IF form = 0 THEN 0
  ELSE IF W[form].tag = "form" THEN form
  ELSE closest_form(W, W[form].parent)

RECURSIVE in_tree(_, _, _)
\* n is in tree_to_list(root, [])
in_tree(W, n, root) == n # 0 /\ (n = root \/ in_tree(W, W[n].parent, root))

RECURSIVE form_parts(_, _, _)
\* Tab.submit_form: name=value of the named inputs of the form, from the i-th
\* element on; a checkbox only when checked. urllib.parse.quote leaves the
\* letters of these names and values as they are.
form_parts(W, form, i) ==
  IF i > Len(W) THEN <<>>
  ELSE LET a == W[i].attributes
           named == in_tree(W, i, form) /\ W[i].tag = "input" /\ DictHas(a, "name")
           part == IF is_checkbox(a)
                     THEN DictGet(a, "name", <<>>) \o <<"=">> \o DictGet(a, "value", <<"on">>)
                     ELSE DictGet(a, "name", <<>>) \o <<"=">> \o DictGet(a, "value", <<>>)
           rest == form_parts(W, form, i + 1)
       IN IF named /\ (is_checkbox(a) => checked(a)) THEN <<part>> \o rest ELSE rest

\* Tab.submit_form after the submit event: body and url
form_submission(W, form, base) ==
  [body |-> Body(str_join(form_parts(W, form, 1), <<"&">>)),
   url |-> URL_resolve(base, DictGet(W[form].attributes, "action", <<>>))]

\* the dispatch of the event ended with its default prevented: it was made,
\* no listener raised, and dispatchEvent returned false
EndedPrevented(W, S, type, elt) ==
  /\ elt \in S.handles
  /\ ~Node_dispatchEvent(W, S.listeners, type, elt, NewEvent).raised
  /\ ~Node_dispatchEvent(W, S.listeners, type, elt, NewEvent).ret

Dispatched(W, S, type, elt) ==
  [type |-> type, elt |-> elt, prevented |-> EndedPrevented(W, S, type, elt)]

Input(op, elt, char, events, ok, dest) ==
  [op |-> op, elt |-> elt, char |-> char, events |-> events, ok |-> ok, dest |-> dest]

\* a step that makes no request uses no response and no script
Unused(resp, script) == resp = NoResponse /\ script = NoScript

\* the handler returns without a load: W and O are the documents, f the focus
Stay(W, O, f, o) ==
  /\ widgets' = W
  /\ old_widgets' = IF f < 0 THEN O ELSE <<>>
  /\ focus' = f
  /\ inobs' = o
  /\ UNCHANGED <<handlers, navVars, COOKIE_JAR, obs, marked, past, nonInputVars>>

\* Tab.load replaces the document and the script context when the request
\* succeeds; it leaves Tab.focus pointing at the element it pointed at
PageLoaded(u, W, O, f, resp, script) ==
  IF resp.ok
    THEN /\ script \in PageScripts(u)
         /\ widgets' = PageWidgets(u)
         /\ handlers' = script
         /\ focus' = IF f > 0 THEN -f ELSE f
         /\ old_widgets' = IF f > 0 THEN W ELSE IF f < 0 THEN O ELSE <<>>
    ELSE /\ script = NoScript
         /\ widgets' = W
         /\ old_widgets' = IF f < 0 THEN O ELSE <<>>
         /\ focus' = f
         /\ UNCHANGED handlers

\* Tab.submit_form(form) of the document D, whose elements have the handles
\* of S; events are the events the handler dispatched before
submit_form(W, O, f, D, S, form, op, elt, char, events, resp, script) ==
  LET prevent == dispatch_event(D, S, "submit", form)
      evs == Append(events, Dispatched(D, S, "submit", form))
      sub == form_submission(D, form, url)
  IN IF prevent
       THEN Unused(resp, script) /\ Stay(W, O, f, Input(op, elt, char, evs, FALSE, NoURL))
       ELSE /\ history_index + 2 <= MaxHist
            /\ navobs' = NavObs("navigate", sub.url, "POST", sub.body, TRUE, resp.ok,
                                navigate_payload("POST", sub.body))
            /\ Tab_load_request(sub.url, payload_method(navigate_payload("POST", sub.body)),
                                resp, TRUE, navigate_history(sub.url, "POST", sub.body),
                                history_index + 1)
            /\ PageLoaded(sub.url, W, O, f, resp, script)
            /\ inobs' = Input(op, elt, char, evs, resp.ok, sub.url)
            /\ UNCHANGED nonInputVars

\* Browser.go_address: the tab is blurred, then Tab.navigate(url)
InputNavigate(u, resp, script) ==
  /\ history_index + 2 <= MaxHist
  /\ navobs' = NavObs("navigate", u, "GET", NoBody, TRUE, resp.ok, navigate_payload("GET", NoBody))
  /\ Tab_load_request(u, payload_method(navigate_payload("GET", NoBody)), resp, FALSE,
                      navigate_history(u, "GET", NoBody), history_index + 1)
  /\ PageLoaded(u, widgets, <<>>, 0, resp, script)
  /\ inobs' = NoInput
  /\ UNCHANGED nonInputVars

\* Tab.click(x, y) where the widget hit is elt (0 = none): blur, the click
\* event, then the default action of the widget
Click(elt, resp, script) ==
  /\ url # NoURL
  /\ elt \in 0..Len(widgets)
  /\ LET prevent == elt # 0 /\ dispatch_event(widgets, handlers, "click", elt)
         evs == IF elt = 0 THEN <<>> ELSE <<Dispatched(widgets, handlers, "click", elt)>>
         o == Input("click", elt, "", evs, FALSE, NoURL)
         w == IF elt = 0 THEN Widget("", <<>>, 0) ELSE widgets[elt]
         form == closest_form(widgets, w.parent)
         href == DictGet(w.attributes, "href", <<>>)
         dest == URL_resolve(url, href)
     IN IF elt = 0 \/ prevent THEN Unused(resp, script) /\ Stay(widgets, <<>>, 0, o)
        ELSE IF w.tag = "input"
          THEN IF is_checkbox(w.attributes)
                 THEN /\ Unused(resp, script)
                      /\ Stay([widgets EXCEPT ![elt].attributes = toggle(@)], <<>>, 0, o)
                 ELSE /\ Unused(resp, script)
                      /\ Stay([widgets EXCEPT ![elt].attributes = DictSet(@, "value", <<>>)],
                              <<>>, elt, o)
        ELSE IF w.tag = "button" /\ form # 0
          THEN submit_form(widgets, <<>>, 0, widgets, handlers, form, "click", elt, "", evs,
                           resp, script)
        ELSE IF w.tag = "a" /\ href # <<>>
          THEN /\ navobs' = NavObs("click", dest, "GET", NoBody, TRUE, resp.ok, NoBody)
               /\ Tab_load_request(dest, "GET", resp, FALSE, history, history_index)
               /\ PageLoaded(dest, widgets, <<>>, 0, resp, script)
               /\ inobs' = Input("click", elt, "", evs, resp.ok, dest)
               /\ UNCHANGED nonInputVars
        ELSE Unused(resp, script) /\ Stay(widgets, <<>>, 0, o)

\* Tab.keypress(char) with an input focused: the keydown event, then Enter
\* submits the enclosing form and any other character is appended to the value
Keypress(char, resp, script) ==
  /\ focus # 0
  /\ LET cur == focus > 0
         id == IF cur THEN focus ELSE -focus
         D == IF cur THEN widgets ELSE old_widgets
         S == IF cur THEN handlers ELSE NoScript
         prevent == dispatch_event(D, S, "keydown", id)
         evs == <<Dispatched(D, S, "keydown", id)>>
         o == Input("keypress", id, char, evs, FALSE, NoURL)
         form == closest_form(D, D[id].parent)
         value == DictGet(D[id].attributes, "value", <<>>)
         typed == [D EXCEPT ![id].attributes = DictSet(@, "value", value \o <<char>>)]
     IN /\ D[id].tag = "input"
        /\ IF prevent THEN Unused(resp, script) /\ Stay(widgets, old_widgets, focus, o)
           ELSE IF char = "\n"
             THEN IF form # 0
                    THEN submit_form(widgets, old_widgets, focus, D, S, form, "keypress", id,
                                     char, evs, resp, script)
                    ELSE Unused(resp, script) /\ Stay(widgets, old_widgets, focus, o)
           ELSE /\ Unused(resp, script)
                /\ Len(value) < MaxValue
                /\ Stay(IF cur THEN typed ELSE widgets, IF cur THEN old_widgets ELSE typed,
                        focus, o)

InputNext ==
  \/ \E u \in URLs, resp \in PlainResponses, script \in ScriptsA \cup ScriptsB :
       InputNavigate(u, resp, script)
  \/ \E elt \in 0..Len(PageA), resp \in PlainResponses, script \in ScriptsA \cup ScriptsB :
       Click(elt, resp, script)
  \/ \E char \in Chars, resp \in PlainResponses, script \in ScriptsA \cup ScriptsB :
       Keypress(char, resp, script)

SpecInput == Init /\ [][InputNext]_vars

\* ---------------------------------------------------------------- claims on SpecInput
\* the document of the element the handler's event was dispatched on is as it was
EventDocumentUnchanged ==
  IF inobs'.op = "keypress" /\ focus < 0 THEN old_widgets' = old_widgets
  ELSE widgets' = widgets

\* the form was submitted: the submit event was dispatched, a POST entry was
\* appended to the history and loaded
Submitted ==
  /\ Len(inobs'.events) = 2
  /\ inobs'.events[2].type = "submit"
  /\ history_index' = history_index + 1
  /\ Len(history') = history_index' + 1
  /\ history'[Len(history')].method = "POST"
  /\ history'[Len(history')].url = inobs'.dest
  /\ inobs'.ok => url' = inobs'.dest

\* the default action of the first event of the handler was performed
DefaultPerformed ==
  LET o == inobs'
      D == IF o.op = "keypress" /\ focus < 0 THEN old_widgets ELSE widgets
      D2 == IF o.op = "keypress" /\ focus < 0 THEN old_widgets' ELSE widgets'
      w == D[o.elt]
      value == DictGet(w.attributes, "value", <<>>)
  IN IF o.op = "click"
       THEN IF w.tag = "input"
              THEN IF is_checkbox(w.attributes)
                     THEN checked(D2[o.elt].attributes) # checked(w.attributes)
                     ELSE /\ DictGet(D2[o.elt].attributes, "value", <<"?">>) = <<>>
                          /\ focus' = o.elt
            ELSE IF w.tag = "button" THEN closest_form(D, w.parent) # 0 => Submitted
            ELSE IF w.tag = "a"
              THEN /\ navobs'.op = "click"
                   /\ navobs'.u = URL_resolve(url, DictGet(w.attributes, "href", <<>>))
                   /\ o.ok => url' = navobs'.u
            ELSE TRUE
       ELSE IF o.char = "\n" THEN closest_form(D, w.parent) # 0 => Submitted
            ELSE DictGet(D2[o.elt].attributes, "value", <<>>) = value \o <<o.char>>

\* C21: the default action of a click, keydown or submit is performed exactly
\* when the dispatch of the event did not end with the default prevented;
\* when it was prevented, the attributes of the element, the URL of the tab
\* and its history are unchanged.
C21_DefaultIffNotPrevented ==
  [][(inobs'.op # "" /\ inobs'.events # <<>>) =>
       LET evs == inobs'.events
       IN IF evs[Len(evs)].prevented
            THEN /\ EventDocumentUnchanged
                 /\ url' = url
                 /\ history' = history
                 /\ history_index' = history_index
                 /\ Len(evs) = 2 => ~evs[1].prevented
            ELSE /\ \A i \in 1..Len(evs) : ~evs[i].prevented
                 /\ DefaultPerformed]_vars

\* C21 witness: a click on the text input was not prevented and focused and
\* cleared it; the keydown of the key typed next was prevented, and the value
\* is still empty.
C21_Witness ==
  /\ inobs.op = "keypress"
  /\ inobs.events # <<>>
  /\ inobs.events[1].prevented
  /\ focus = 2
  /\ DictGet(widgets[2].attributes, "value", <<"?">>) = <<>>

\* the listeners of the element elt and of its ancestors, run as
\* Node.prototype.dispatchEvent runs them, end with the default prevented
ChainPrevents(W, L, type, elt) ==
  /\ ~Node_dispatchEvent(W, L, type, elt, NewEvent).raised
  /\ ~Node_dispatchEvent(W, L, type, elt, NewEvent).ret

\* C32 (as claimed): a click or keydown dispatched on an element runs the
\* matching listeners of the element and of its ancestors and honours their
\* preventDefault (the default action is not performed: the document, the URL
\* and the history stay, no submit follows), also when the target element has
\* never been given a handle.
C32_AncestorListenersRun ==
  [][(/\ inobs'.op # ""
      /\ inobs'.events # <<>>
      /\ inobs'.op = "keypress" => focus > 0
      /\ ChainPrevents(widgets, handlers.listeners, inobs'.events[1].type,
                       inobs'.events[1].elt))
       => /\ Len(inobs'.events) = 1
          /\ widgets' = widgets
          /\ url' = url
          /\ history' = history]_vars

\* C35 (as claimed): at every point the focus of the tab is empty or is an
\* input element of the document the tab shows now (focus < 0 is an element
\* of a document the tab no longer shows).
C35_FocusIsInputInTree ==
  focus = 0 \/ (focus \in 1..Len(widgets) /\ widgets[focus].tag = "input")

(***************************************************************************)
(* SpecScan: documents whose scripts change the tree; every change is      *)
(* followed by Tab.process_scripts_and_styles. Elements are appended,      *)
(* taken out of the tree and put back, requests succeed or fail.           *)
(***************************************************************************)
ScanDocs ==
  { <<Script(OkJs), Link(SelfCss)>>, <<Link(SelfCss), Link(BCss)>>,
    <<Script(CdnJs), Script(CdnJs)>> }

ScanPolicies == { <<>>, <<"default-src", " ", "https", "://", "self.example", "/">> }

\* Tab.load of a document
ScanLoad ==
  \E u \in Pages, csp \in ScanPolicies, nodes \in ScanDocs, sub_ok \in BOOLEAN :
    LoadPage(u, csp, nodes, sub_ok)

\* setAttribute on some element, then the rescan
ScanAgain == \E sub_ok \in BOOLEAN : scan.nodes # <<>> /\ Rescan(scan.nodes, sub_ok)

\* appendChild of a new element, then the rescan
ScanAppend ==
  \E node \in {Script(OkJs), Script(CdnJs), Link(BCss)}, sub_ok \in BOOLEAN :
    scan.nodes # <<>> /\ Rescan(Append(scan.nodes, node), sub_ok)

\* removeChild of an element of the tree, then the rescan
ScanRemove ==
  \E i \in 1..Len(scan.nodes), sub_ok \in BOOLEAN :
    /\ InTree(scan.nodes[i])
    /\ Rescan([scan.nodes EXCEPT ![i] = Detached(@)], sub_ok)

\* appendChild of an element that was removed, then the rescan
ScanPutBack ==
  \E i \in 1..Len(scan.nodes), sub_ok \in BOOLEAN :
    /\ ~InTree(scan.nodes[i])
    /\ Rescan([scan.nodes EXCEPT ![i] = Attached(@)], sub_ok)

ScanNext == ScanLoad \/ ScanAgain \/ ScanAppend \/ ScanRemove \/ ScanPutBack

SpecScan == Init /\ [][ScanNext]_vars

\* ---------------------------------------------------------------- claims on SpecScan
\* no value occurs twice in the list s
NoRepeat(s) == \A i, j \in 1..Len(s) : s[i] = s[j] => i = j

InList(s, x) == \E i \in 1..Len(s) : s[i] = x

\* C31: between two navigations, for any number of rescans, each <script src>
\* value causes at most one fetch attempt and at most one scheduled run task,
\* also when the fetch failed or the script was blocked by CSP (a blocked src
\* is never fetched).
C31_ScriptFetchedAtMostOnce ==
  /\ NoRepeat(scan.attempts)
  /\ NoRepeat(scan.runs)
  /\ \A i \in 1..Len(scan.runs) : InList(scan.attempts, scan.runs[i])
  /\ \A i \in 1..Len(scan.attempts) :
       allowed_request(allowed_origins, URL_resolve(url, scan.attempts[i]))

\* a rescan that fetched nothing, of a tree with a script whose fetch failed,
\* after a fetch of another script that was run
C31_Witness ==
  /\ scan.op = "scan"
  /\ scan.fetched = <<>>
  /\ \E i \in 1..Len(scan.nodes) :
       /\ scan.nodes[i].tag = "script"
       /\ InList(scan.attempts, scan.nodes[i].attr)
       /\ ~InList(scan.runs, scan.nodes[i].attr)
  /\ scan.runs # <<>>
\* the rules of the entries of a dict of styles, one entry after the other
RECURSIVE RulesOf(_)
RulesOf(d) == IF d = <<>> THEN <<>> ELSE Head(d).v \o RulesOf(Tail(d))

\* the link elements of the tree that the policy allows
AllowedLinks(sc, u, ao) ==
  { i \in 1..Len(sc.nodes) :
      sc.nodes[i].tag = "link" /\ allowed_request(ao, URL_resolve(u, sc.nodes[i].attr)) }

\* the scan sc sent a request for element i
FetchedFor(sc, i) == \E k \in 1..Len(sc.fetched) : sc.fetched[k].node = i

MaxDocs == 3       \* documents loaded in one behaviour
MaxWidgets == 2    \* widgets of a document

nonBoxVars == <<tabVars, runnerVars, cookieVars, navVars, jarVars, cspVars, eventVars,
               parseVars, domVars, inputVars, block>>

\* InputLayout registers (rect, node) for every widget of the document laid out
doc_boxes(tab) == [k \in 1..tab.nw |-> [rect |-> k, elt |-> [doc |-> tab.doc, w |-> k]]]

\* Tab.render of tab t: nothing when needs_render is False, else
\* Browser._clear_widget_boxes() and the layout, which registers the boxes
render_tab(T, B, t) ==
  IF ~T[t].needs_render THEN [tabs |-> T, boxes |-> B]
  ELSE [tabs |-> [T EXCEPT ![t].needs_render = FALSE], boxes |-> doc_boxes(T[t])]

RECURSIVE hit_widget(_, _, _)
\* Browser._hit_widget: for r, elt in reversed(_widget_boxes), from box i down
hit_widget(B, i, x) ==
  IF i = 0 THEN NoElement
  ELSE IF B[i].rect = x THEN B[i].elt
  ELSE hit_widget(B, i - 1, x)

\* Tab.load in the active tab: a new document, then apply_styles_and_render
BoxLoad(nw) ==
  /\ ndocs < MaxDocs
  /\ LET t == active_tab_index
         T == [tabs EXCEPT ![t] = [doc |-> ndocs + 1, nw |-> nw,
                                   needs_render |-> tabs[t].needs_render]]
         r == render_tab(T, widget_boxes, t)
     IN /\ tabs' = r.tabs
        /\ widget_boxes' = r.boxes
  /\ ndocs' = ndocs + 1
  /\ hit' = NoHit
  /\ UNCHANGED <<active_tab_index, nonBoxVars>>

\* JSContext.style_set by a script of tab t: Tab.set_needs_render
BoxStyleSet(t) ==
  /\ tabs[t].doc # 0
  /\ ~tabs[t].needs_render
  /\ tabs' = [tabs EXCEPT ![t].needs_render = TRUE]
  /\ hit' = NoHit
  /\ UNCHANGED <<active_tab_index, widget_boxes, ndocs, nonBoxVars>>

\* a call of the bridge that changes the DOM of tab t: apply_styles_and_render
BoxMutate(t) ==
  /\ tabs[t].doc # 0
  /\ tabs[t].needs_render
  /\ LET r == render_tab(tabs, widget_boxes, t)
     IN /\ tabs' = r.tabs
        /\ widget_boxes' = r.boxes
  /\ hit' = NoHit
  /\ UNCHANGED <<active_tab_index, ndocs, nonBoxVars>>

\* Browser.switch_tab(idx)
BoxSwitch(t) ==
  /\ t # active_tab_index
  /\ active_tab_index' = t
  /\ hit' = NoHit
  /\ UNCHANGED <<tabs, widget_boxes, ndocs, nonBoxVars>>

\* Browser.handle_click -> Tab.click(x, y) of the active tab: render, then
\* elt = Browser._hit_widget(x, doc_y)
BoxClick(x) ==
  /\ tabs[active_tab_index].doc # 0
  /\ LET t == active_tab_index
         r == render_tab(tabs, widget_boxes, t)
     IN /\ tabs' = r.tabs
        /\ widget_boxes' = r.boxes
        /\ hit' = [tab |-> t, elt |-> hit_widget(r.boxes, Len(r.boxes), x),
                   doc |-> tabs[t].doc]
  /\ UNCHANGED <<active_tab_index, ndocs, nonBoxVars>>

BoxNext ==
  \/ \E nw \in 1..MaxWidgets : BoxLoad(nw)
  \/ \E t \in 1..NTabs : BoxStyleSet(t)
  \/ \E t \in 1..NTabs : BoxMutate(t)
  \/ \E t \in 1..NTabs : BoxSwitch(t)
  \/ \E x \in 1..MaxWidgets : BoxClick(x)

SpecBoxes == Init /\ [][BoxNext]_vars

\* ---------------------------------------------------------------- claims on SpecBoxes
\* C36 (as claimed): the element a click on a tab is routed to is an element
\* of the document that tab shows, for any interleaving of renders, loads and
\* clicks across tabs.
C36_ClickRoutedToOwnTree ==
  (hit.tab # 0 /\ hit.elt # NoElement) => hit.elt.doc = hit.doc
(***************************************************************************)
(* SpecLayout: the inline layout of one block: words of any width are      *)
(* placed on lines; widths are whole numbers of pixels.                    *)
(***************************************************************************)
MaxBlockX == 1     \* x of a block
MaxBlockWidth == 3 \* width of a block
MaxWord == 4       \* font.measure(word)
MaxSpace == 1      \* font.measure(" ")
MaxWords == 3      \* words of a block

nonLayoutVars == <<tabVars, runnerVars, cookieVars, navVars, jarVars, cspVars, eventVars,
                  parseVars, domVars, inputVars, boxVars>>

\* BlockLayout.flush: the words of the line go to the display list at
\* self.x + rel_x, the cursor returns to 0; nothing when the line is empty
flush(b) ==
  IF b.line = <<>> THEN b
  ELSE [b EXCEPT !.display_list =
                    @ \o [i \in 1..Len(b.line) |-> [x |-> b.x + b.line[i].rel_x,
                                                    w |-> b.line[i].w]],
                 !.cursor_x = 0,
                 !.line = <<>>]

\* BlockLayout.word for a word w pixels wide, in a font whose space is sp wide
word(b, w, sp) ==
  LET c == IF b.cursor_x + w > b.width THEN flush(b) ELSE b
  IN [c EXCEPT !.line = Append(@, [rel_x |-> c.cursor_x, w |-> w]),
               !.cursor_x = c.cursor_x + w + sp,
               !.words = @ + 1]

\* BlockLayout.layout in inline mode, up to self.recurse(self.node)
LayoutStart(x, width) ==
  /\ block' = [x |-> x, width |-> width, cursor_x |-> 0, line |-> <<>>,
               display_list |-> <<>>, words |-> 0]
  /\ UNCHANGED nonLayoutVars

\* recurse meets the next word of a Text node
LayoutWord(w, sp) ==
  /\ block.width > 0
  /\ block.words < MaxWords
  /\ block' = word(block, w, sp)
  /\ UNCHANGED nonLayoutVars

\* recurse meets a <br>, or layout reaches its final self.flush()
LayoutFlush ==
  /\ block.line # <<>>
  /\ block' = flush(block)
  /\ UNCHANGED nonLayoutVars

LayoutNext ==
  \/ \E x \in 0..MaxBlockX, width \in 1..MaxBlockWidth : LayoutStart(x, width)
  \/ \E w \in 1..MaxWord, sp \in 1..MaxSpace : LayoutWord(w, sp)
  \/ LayoutFlush

SpecLayout == Init /\ [][LayoutNext]_vars

\* ---------------------------------------------------------------- claims on SpecLayout
\* C40 (as claimed): every word placed on a line satisfies
\* word.x + word.width <= block.x + block.width after the line is flushed,
\* for every word width and block width.
C40_WordsFitBlock ==
  \A i \in 1..Len(block.display_list) :
    block.display_list[i].x + block.display_list[i].w <= block.x + block.width
====
